---- MODULE Spec2Model ----
(***************************************************************************)
(* A model of the software-defined network simulation of homework2-python: *)
(* the routing-table API (lib.py), the controller's scripted responder     *)
(* (controller.py), the switch's main loop (switch.py) and the packet      *)
(* producer (producer.py).                                                 *)
(*                                                                         *)
(* Representation.  Addresses and port identifiers are naturals (the code  *)
(* orders ipaddress objects numerically).  A Python dict is a function, a  *)
(* list or a FIFO queue a sequence.  None is the empty sequence <<>>; the  *)
(* switch's policies, filters and redirects start as None and are read     *)
(* only behind a truthiness test, which None and the empty container fail  *)
(* alike, so both are the empty function/sequence here.  An operation that *)
(* can raise returns a record with a field err ("none" when it returns     *)
(* normally, else the exception's name) beside the state it leaves.        *)
(***************************************************************************)
EXTENDS Integers, Sequences, FiniteSets, TLC

\* ---------------------------------------------------------------- bounds

\* The producer stops putting packets while the inbound queue holds this many
\* items (queue.Queue() itself is unbounded).
MaxQueue == 2

\* The longest network list and the longest interface list passed to the calls
\* of lib.py when the API is driven directly.
MaxNetLen == 3
MaxIfLen == 2

\* When the controller is driven directly: the last value of its update counter,
\* and the length of a response list above which the caller passes a new, empty
\* one.
MaxUpdates == 22
MaxSink == 1

\* The longest filter list install_filter is called on when driven directly.
MaxChain == 4

\* ------------------------------------------------------------- constants

None == <<>>
EmptyMap == <<>>
NoAddr == 0

NEW_TABLE == "NEW_TABLE"
UPDATED_TABLE == "UPDATED_TABLE"
NEW_RULE == "NEW_RULE"
END == "END"
UPDATE == "UPDATE"
NOP == "NO_OP"
POLICIES == "POLICIES"
FILTERS == "FILTERS"
MOBILITY == "MOBILITY"
\* The stop marker of an output queue (the string 'STOP' in the code); a record
\* here, so that it can be compared with a packet.
STOP == [STOP |-> "STOP"]

\* The key of the global ("blueprint") quota in a policy table.  No flow has
\* this key: a flow key is a (source, destination) pair of addresses >= 1.
PoliciesKey == <<NoAddr, NoAddr>>

FILTERED == "filtered"
INACTIVE_LINK == "inactive link"
READ_EXCEEDED == "max no. of 'READ's exceeded"
WRITE_EXCEEDED == "max no. of 'WRITE's exceeded"
BOTH_EXCEEDED == "max no. of 'READ's and 'WRITE's exceeded"

\* --------------------------------------------------------------- helpers

\* d[k] = v on a dict.
Put(d, k, v) == [x \in (DOMAIN d) \cup {k} |-> IF x = k THEN v ELSE d[x]]

\* del d[k] on a dict that has k.
Del(d, k) == [x \in (DOMAIN d) \ {k} |-> d[x]]

\* sorted(list(d))[0] on a non-empty dict.
SortedFirst(d) == CHOOSE k \in DOMAIN d : \A x \in DOMAIN d : k <= x

\* sorted(list(d))[len - 1] on a non-empty dict.
SortedLast(d) == CHOOSE k \in DOMAIN d : \A x \in DOMAIN d : x <= k

\* list(range(n))
Range(n) == [k \in 1..n |-> k - 1]

\* Python's a | b on naturals.
RECURSIVE BitOr(_, _)
BitOr(a, b) ==
    IF a = 0 THEN b
    ELSE IF b = 0 THEN a
    ELSE 2 * BitOr(a \div 2, b \div 2) + (IF a % 2 = 1 \/ b % 2 = 1 THEN 1 ELSE 0)

Rule(out, act) == [OUTPUT_LINK |-> out, ACTIVE |-> act]

Packet(src, dst, port, op) ==
    [SRC_ADDR |-> src, DST_ADDR |-> dst, PAYLOAD |-> [DEST_PORT |-> port, OP |-> op]]

\* ------------------------------------------------------------------ lib.py

\* __util: set the active flag of an existing rule, ValueError otherwise.
Util(addr, ftab, val) ==
    IF addr \in DOMAIN ftab
    THEN [ftable |-> [ftab EXCEPT ![addr].ACTIVE = val], err |-> "none"]
    ELSE [ftable |-> ftab, err |-> "ValueError"]

drop(addr, ftab) == Util(addr, ftab, FALSE)

reactivate(addr, ftab) == Util(addr, ftab, TRUE)

\* The guard of install, `n == 0 | len(network) == 0`.  Python's | binds
\* tighter than ==, so this is the chained comparison
\* n == (0 | len(network)) and (0 | len(network)) == 0.
InstallGuard(n, m) == n = BitOr(0, m) /\ BitOr(0, m) = 0

\* InstallLoop without the reset of i at the end of the interface list.
RECURSIVE InstallLoop_NoWrap(_, _, _, _)
InstallLoop_NoWrap(interfaces, network, ftable, i) ==
    IF network = <<>> THEN [ftable |-> ftable, err |-> "none"]
    ELSE IF i >= Len(interfaces) THEN [ftable |-> ftable, err |-> "IndexError"]
    ELSE InstallLoop_NoWrap(interfaces, Tail(network),
                            Put(ftable, Head(network), Rule(interfaces[i + 1], TRUE)),
                            i + 1)

\* The for loop of install: i is the 0-based index of the next interface;
\* interfaces[i] raises IndexError on an empty interface list.
RECURSIVE InstallLoop(_, _, _, _)
InstallLoop(interfaces, network, ftable, i) ==
    IF network = <<>> THEN [ftable |-> ftable, err |-> "none"]
    ELSE IF i >= Len(interfaces) THEN [ftable |-> ftable, err |-> "IndexError"]
    ELSE InstallLoop(interfaces, Tail(network),
                     Put(ftable, Head(network), Rule(interfaces[i + 1], TRUE)),
                     IF i + 1 >= Len(interfaces) THEN 0 ELSE i + 1)

\* install: the table is cleared first, whatever follows.
install(interfaces, network, ftable) ==
    IF InstallGuard(Len(interfaces), Len(network))
    THEN [ftable |-> EmptyMap, err |-> "IndexError"]
    ELSE InstallLoop(interfaces, network, EmptyMap, 0)

\* delete: del ftab[addr], KeyError on a missing key.
delete(addr, ftab) ==
    IF addr \in DOMAIN ftab
    THEN [ftable |-> Del(ftab, addr), err |-> "none"]
    ELSE [ftable |-> ftab, err |-> "KeyError"]

\* add_rule_for that takes the last interface of the list.
add_rule_for_LastPort(newaddr, interfaces, ftab) ==
    IF Len(interfaces) = 0
    THEN [ftable |-> ftab, err |-> "IndexError"]
    ELSE [ftable |-> Put(ftab, newaddr, Rule(interfaces[Len(interfaces)], TRUE)),
          err |-> "none"]

\* add_rule_for: the first interface of the list, IndexError on an empty list.
add_rule_for(newaddr, interfaces, ftab) ==
    IF Len(interfaces) = 0
    THEN [ftable |-> ftab, err |-> "IndexError"]
    ELSE [ftable |-> Put(ftab, newaddr, Rule(interfaces[1], TRUE)), err |-> "none"]

install_policy(ptable, max_read, max_write) ==
    Put(EmptyMap, PoliciesKey, <<max_read, max_write>>)

mobility(rules, from_addr, to_addr) == Put(rules, from_addr, to_addr)

\* The candidate predicates of controller.py, by name.  A call returns what
\* Python gives: an exception (raised), or a value that is a bool or not.
bad_function1 == "bad_function1"
bad_function2 == "bad_function2"
bad_function3 == "bad_function3"
good_function == "good_function"

\* Two more well-formed predicates (`lambda pkt: True`, `lambda pkt: False`),
\* candidates when install_filter is driven directly.
always_true == "always_true"
always_false == "always_false"

\* fun(pkt) for a packet dict pkt.
CallFilter(fun, pkt) ==
    CASE fun = bad_function1 -> [raised |-> TRUE, isbool |-> FALSE, val |-> FALSE]
      [] fun = bad_function2 -> [raised |-> FALSE, isbool |-> FALSE, val |-> FALSE]
      [] fun = bad_function3 -> [raised |-> TRUE, isbool |-> FALSE, val |-> FALSE]
      [] fun = good_function ->
            [raised |-> FALSE, isbool |-> TRUE, val |-> pkt.PAYLOAD.DEST_PORT < 450]
      [] fun = always_true -> [raised |-> FALSE, isbool |-> TRUE, val |-> TRUE]
      [] fun = always_false -> [raised |-> FALSE, isbool |-> TRUE, val |-> FALSE]

\* The probe packet of install_filter (loopback addresses are address 127 here).
test_packet == Packet(127, 127, 80, "o")

\* install_filter that puts the candidate behind the filters already installed.
install_filter_Append(filtable, fun) ==
    LET result == CallFilter(fun, test_packet)
    IN IF ~result.raised /\ result.isbool
       THEN [filtable |-> filtable \o <<fun>>, ok |-> TRUE]
       ELSE [filtable |-> filtable, ok |-> FALSE]

\* install_filter that installs whatever it is given.
install_filter_NoProbe(filtable, fun) == [filtable |-> <<fun>> \o filtable, ok |-> TRUE]

install_filter(filtable, fun) ==
    LET result == CallFilter(fun, test_packet)
    IN IF ~result.raised /\ result.isbool
       THEN [filtable |-> <<fun>> \o filtable, ok |-> TRUE]
       ELSE [filtable |-> filtable, ok |-> FALSE]

\* ------------------------------------------------------------ controller.py

\* NewController whose counter starts at 0.
NewController_FromZero(network, optargs) ==
    [ network           |-> network,
      requested_updates |-> 0,
      last_sent_ftab    |-> EmptyMap,
      filters           |-> <<>>,
      redirects         |-> EmptyMap,
      optargs           |-> optargs # <<>>,
      todrop            |-> IF optargs # <<>> THEN optargs[1] ELSE NoAddr,
      todelete          |-> IF optargs # <<>> THEN optargs[2] ELSE NoAddr,
      redirect_from     |-> IF optargs # <<>> THEN optargs[3] ELSE NoAddr,
      redirect_to       |-> IF optargs # <<>> THEN optargs[4] ELSE NoAddr ]

\* Controller.__init__.  optargs is None (<<>>) or the four configured
\* addresses <<todrop, todelete, redirect_from, redirect_to>>; without them
\* the four attributes do not exist until an update sets them (NoAddr here).
NewController(network, optargs) ==
    [ network           |-> network,
      requested_updates |-> -1,
      last_sent_ftab    |-> EmptyMap,
      filters           |-> <<>>,
      redirects         |-> EmptyMap,
      optargs           |-> optargs # <<>>,
      todrop            |-> IF optargs # <<>> THEN optargs[1] ELSE NoAddr,
      todelete          |-> IF optargs # <<>> THEN optargs[2] ELSE NoAddr,
      redirect_from     |-> IF optargs # <<>> THEN optargs[3] ELSE NoAddr,
      redirect_to       |-> IF optargs # <<>> THEN optargs[4] ELSE NoAddr ]

\* A response whose data is the controller's own object, not a copy of it.
Response_Shared(type, data) == [RESP_TYPE |-> type, RESP_DATA |-> data, RESP_OBJ |-> "shared"]

\* A response.  Its data is a deepcopy (or None), an object nothing else refers
\* to: RESP_OBJ, which names the object the data is, says "copy".
Response(type, data) == [RESP_TYPE |-> type, RESP_DATA |-> data, RESP_OBJ |-> "copy"]

\* What a request leaves: the controller, the response sink and the exception
\* that escaped it, if any.
Outcome(c, resp_list, err) == [c |-> c, resp_list |-> resp_list, err |-> err]

\* The response sink after an UPDATED_TABLE answer carrying a deep copy of the
\* retained table.
SendTable(c, resp_list) == Append(resp_list, Response(UPDATED_TABLE, c.last_sent_ftab))

\* type == NEW_TABLE: a fresh table is installed over the known network; it
\* becomes the retained table only if install returns.
RequestNewTable(c, resp_list, data) ==
    LET r == install(Range(data), c.network, EmptyMap)
    IN IF r.err # "none" THEN Outcome(c, resp_list, r.err)
       ELSE Outcome([c EXCEPT !.last_sent_ftab = r.ftable],
                    Append(resp_list, Response(NEW_TABLE, r.ftable)), "none")

\* RequestNewRule that counts as an update request too.
RequestNewRule_Counts(c, resp_list, data) ==
    LET r == add_rule_for(data[1], Range(data[2]), c.last_sent_ftab)
    IN IF r.err # "none" THEN Outcome(c, resp_list, r.err)
       ELSE LET c1 == [c EXCEPT !.last_sent_ftab = r.ftable,
                                !.requested_updates = @ + 1]
            IN Outcome(c1, SendTable(c1, resp_list), "none")

\* RequestNewRule that inserts a rule only for an address of the network.
RequestNewRule_KnownOnly(c, resp_list, data) ==
    LET r == add_rule_for(data[1], Range(data[2]), c.last_sent_ftab)
    IN IF r.err # "none" THEN Outcome(c, resp_list, r.err)
       ELSE LET c1 == IF \E k \in DOMAIN c.network : c.network[k] = data[1]
                      THEN [c EXCEPT !.last_sent_ftab = r.ftable]
                      ELSE c
            IN Outcome(c1, SendTable(c1, resp_list), "none")

\* type == NEW_RULE: data is (which, ports).
RequestNewRule(c, resp_list, data) ==
    LET r == add_rule_for(data[1], Range(data[2]), c.last_sent_ftab)
    IN IF r.err # "none" THEN Outcome(c, resp_list, r.err)
       ELSE LET c1 == [c EXCEPT !.last_sent_ftab = r.ftable]
            IN Outcome(c1, SendTable(c1, resp_list), "none")

\* requested_updates == 2: deactivate a rule.
UpdateDrop(c, resp_list) ==
    IF ~c.optargs /\ DOMAIN c.last_sent_ftab = {} THEN Outcome(c, resp_list, "IndexError")
    ELSE LET c1 == IF c.optargs THEN c
                   ELSE [c EXCEPT !.todrop = SortedFirst(c.last_sent_ftab)]
             r == drop(c1.todrop, c1.last_sent_ftab)
             c2 == [c1 EXCEPT !.last_sent_ftab = r.ftable]
         IN IF r.err # "none" THEN Outcome(c1, resp_list, r.err)
            ELSE Outcome(c2, SendTable(c2, resp_list), "none")

\* requested_updates == 4: reactivate; without configured targets the address
\* is read again from the retained table's sorted keys.
UpdateReactivate(c, resp_list) ==
    IF ~c.optargs /\ DOMAIN c.last_sent_ftab = {} THEN Outcome(c, resp_list, "IndexError")
    ELSE LET c1 == IF c.optargs THEN c
                   ELSE [c EXCEPT !.todrop = SortedFirst(c.last_sent_ftab)]
             r == reactivate(c1.todrop, c1.last_sent_ftab)
             c2 == [c1 EXCEPT !.last_sent_ftab = r.ftable]
         IN IF r.err # "none" THEN Outcome(c1, resp_list, r.err)
            ELSE Outcome(c2, SendTable(c2, resp_list), "none")

\* requested_updates == 6: delete a rule.
UpdateDelete(c, resp_list) ==
    IF ~c.optargs /\ DOMAIN c.last_sent_ftab = {} THEN Outcome(c, resp_list, "IndexError")
    ELSE LET c1 == IF c.optargs THEN c
                   ELSE [c EXCEPT !.todelete = SortedFirst(c.last_sent_ftab)]
             r == delete(c1.todelete, c1.last_sent_ftab)
             c2 == [c1 EXCEPT !.last_sent_ftab = r.ftable]
         IN IF r.err # "none" THEN Outcome(c1, resp_list, r.err)
            ELSE Outcome(c2, SendTable(c2, resp_list), "none")

\* requested_updates == 8: the policy "max 3 READs, max 3 WRITEs".
UpdatePolicies(c, resp_list) ==
    Outcome(c, Append(resp_list, Response(POLICIES, install_policy(EmptyMap, 3, 3))), "none")

\* requested_updates == 10: the four install_filter calls, in the code's order,
\* on the controller's own filter list.
UpdateFilters(c, resp_list) ==
    LET f1 == install_filter(c.filters, bad_function1).filtable
        f2 == install_filter(f1, bad_function2).filtable
        f3 == install_filter(f2, bad_function3).filtable
        f4 == install_filter(f3, good_function).filtable
    IN Outcome([c EXCEPT !.filters = f4], Append(resp_list, Response(FILTERS, f4)), "none")

\* requested_updates == 12: the redirect.
UpdateMobility(c, resp_list) ==
    IF ~c.optargs /\ DOMAIN c.last_sent_ftab = {} THEN Outcome(c, resp_list, "IndexError")
    ELSE LET c1 == IF c.optargs THEN c
                   ELSE [c EXCEPT !.redirect_from = SortedFirst(c.last_sent_ftab),
                                  !.redirect_to = SortedLast(c.last_sent_ftab)]
             c2 == [c1 EXCEPT !.redirects = mobility(c1.redirects, c1.redirect_from,
                                                     c1.redirect_to)]
         IN Outcome(c2, Append(resp_list, Response(MOBILITY, c2.redirects)), "none")

\* RequestUpdate that deletes a rule at counter 7 as well.
RequestUpdate_DeletesAgain(c, resp_list) ==
    LET c1 == [c EXCEPT !.requested_updates = c.requested_updates + 1]
        n == c1.requested_updates
    IN CASE n = 2 -> UpdateDrop(c1, resp_list)
         [] n = 4 -> UpdateReactivate(c1, resp_list)
         [] n = 6 -> UpdateDelete(c1, resp_list)
         [] n = 7 -> UpdateDelete(c1, resp_list)
         [] n = 8 -> UpdatePolicies(c1, resp_list)
         [] n = 10 -> UpdateFilters(c1, resp_list)
         [] n = 12 -> UpdateMobility(c1, resp_list)
         [] n = 21 -> Outcome(c1, Append(resp_list, Response(END, None)), "none")
         [] OTHER -> Outcome(c1, Append(resp_list, Response(NOP, None)), "none")

\* type == UPDATE: the counter rises first, then selects the action.
RequestUpdate(c, resp_list) ==
    LET c1 == [c EXCEPT !.requested_updates = c.requested_updates + 1]
        n == c1.requested_updates
    IN CASE n = 2 -> UpdateDrop(c1, resp_list)
         [] n = 4 -> UpdateReactivate(c1, resp_list)
         [] n = 6 -> UpdateDelete(c1, resp_list)
         [] n = 8 -> UpdatePolicies(c1, resp_list)
         [] n = 10 -> UpdateFilters(c1, resp_list)
         [] n = 12 -> UpdateMobility(c1, resp_list)
         [] n = 21 -> Outcome(c1, Append(resp_list, Response(END, None)), "none")
         [] OTHER -> Outcome(c1, Append(resp_list, Response(NOP, None)), "none")

\* Controller.request.  Any other type falls through every branch.
request(c, type, resp_list, data) ==
    CASE type = NEW_TABLE -> RequestNewTable(c, resp_list, data)
      [] type = NEW_RULE -> RequestNewRule(c, resp_list, data)
      [] type = UPDATE -> RequestUpdate(c, resp_list)
      [] OTHER -> Outcome(c, resp_list, "none")

\* ---------------------------------------------------------------- variables

VARIABLES
    \* Controller
    controller,     \* the Controller object's attributes
    \* Switch
    inqueue,        \* self.inqueue: items <<input port, packet>>
    outports,       \* self.outports: outports[k + 1] is the queue of port k
    ftab,           \* self.ftab
    policies,       \* self.policies
    filters,        \* self.filters
    redirects,      \* self.redirects
    responses,      \* self.responses
    dropped,        \* self.dropped: pairs <<packet, motivation>>
    end,            \* self.end
    i,              \* the cycle counter i of Switch.start
    sw_pc,          \* where the switch thread is in Switch.start
    aliases,        \* the attributes among ftab, filters, redirects whose object
                    \* is the controller's own (bound from a response's data)
    \* Producer
    producer,       \* the Producer object's attributes and its thread's position
    \* History of the switch's calls, for stating the claims
    requests,       \* every controller_link.request call so far: <<type, data>>
    requeued,       \* every item put back on the inbound queue after a miss
    accepted,       \* every packet put on an output queue under the policy in force
    sentinels,      \* how many termination signals the producer has put
    \* A routing table driven directly through the API of lib.py
    lib_ftab,       \* the table passed to the calls
    lib_call,       \* the last call: its name, its arguments and its outcome
    lib_filtable,   \* the filter list passed to install_filter
    ctl_call,       \* the last request made to the controller directly
    \* The thread that drives a producer in step mode
    signals,        \* how many do_step calls have been made
    caller,         \* where that thread is inside do_step and stop
    \* Consumers
    consumers,      \* one Consumer per output queue: its attributes
    was_put         \* for each output queue, the packets put on it so far

vars == <<controller, inqueue, outports, ftab, policies, filters, redirects,
          responses, dropped, end, i, sw_pc, aliases, producer, requests, requeued,
          accepted, sentinels, lib_ftab, lib_call, lib_filtable, ctl_call,
          signals, caller,
          consumers, was_put>>

history_vars == <<requests, requeued, accepted, sentinels>>

lib_vars == <<lib_ftab, lib_call, lib_filtable, ctl_call, signals, caller,
              consumers, was_put>>

switch_vars == <<inqueue, outports, ftab, policies, filters, redirects,
                 responses, dropped, end, i, sw_pc, aliases>>

\* ------------------------------------------------------------------ switch.py

\* The key of a packet's flow in the policy table.
Flow(packet) == <<packet.SRC_ADDR, packet.DST_ADDR>>

\* The remaining quota enforce_policies reads for a packet: the flow's own
\* entry, or the global one on a KeyError.
Remaining(pol, packet) ==
    IF Flow(packet) \in DOMAIN pol THEN pol[Flow(packet)] ELSE pol[PoliciesKey]

\* enforce_policies: the policy table it leaves, the motivation and whether the
\* packet may continue.
Verdict(pol, motivation, cont) == [policies |-> pol, motivation |-> motivation, cont |-> cont]

\* enforce_policies that takes what a packet consumes from the default too.
enforce_policies_ChargesDefault(pol, packet) ==
    LET rem_r == Remaining(pol, packet)[1]
        rem_w == Remaining(pol, packet)[2]
        op == packet.PAYLOAD.OP
        r == IF op \in {"r", "rw"} THEN 1 ELSE 0
        w == IF op \in {"w", "rw"} THEN 1 ELSE 0
    IN IF op \notin {"r", "w", "rw"} THEN Verdict(pol, None, TRUE)
       ELSE IF rem_r >= r /\ rem_w >= w
       THEN Verdict(Put(Put(pol, Flow(packet), <<rem_r - r, rem_w - w>>),
                        PoliciesKey, <<pol[PoliciesKey][1] - r, pol[PoliciesKey][2] - w>>),
                    None, TRUE)
       ELSE IF rem_r >= r THEN Verdict(pol, WRITE_EXCEEDED, FALSE)
       ELSE IF rem_w >= w THEN Verdict(pol, READ_EXCEEDED, FALSE)
       ELSE Verdict(pol, BOTH_EXCEEDED, FALSE)

\* enforce_policies that accepts a read or a write with nothing left.
enforce_policies_OffByOne(pol, packet) ==
    LET rem_r == Remaining(pol, packet)[1]
        rem_w == Remaining(pol, packet)[2]
        op == packet.PAYLOAD.OP
    IN CASE op = "r" ->
              IF rem_r >= 0
              THEN Verdict(Put(pol, Flow(packet), <<rem_r - 1, rem_w>>), None, TRUE)
              ELSE Verdict(pol, READ_EXCEEDED, FALSE)
         [] op = "w" ->
              IF rem_w >= 0
              THEN Verdict(Put(pol, Flow(packet), <<rem_r, rem_w - 1>>), None, TRUE)
              ELSE Verdict(pol, WRITE_EXCEEDED, FALSE)
         [] op = "rw" ->
              IF rem_r > 0 /\ rem_w > 0
              THEN Verdict(Put(pol, Flow(packet), <<rem_r - 1, rem_w - 1>>), None, TRUE)
              ELSE IF rem_r > 0 THEN Verdict(pol, WRITE_EXCEEDED, FALSE)
              ELSE IF rem_w > 0 THEN Verdict(pol, READ_EXCEEDED, FALSE)
              ELSE Verdict(pol, BOTH_EXCEEDED, FALSE)
         [] OTHER -> Verdict(pol, None, TRUE)

\* enforce_policies with the two one-sided read-write rejections exchanged.
enforce_policies_SwappedReasons(pol, packet) ==
    LET rem_r == Remaining(pol, packet)[1]
        rem_w == Remaining(pol, packet)[2]
        op == packet.PAYLOAD.OP
    IN CASE op = "r" ->
              IF rem_r > 0
              THEN Verdict(Put(pol, Flow(packet), <<rem_r - 1, rem_w>>), None, TRUE)
              ELSE Verdict(pol, READ_EXCEEDED, FALSE)
         [] op = "w" ->
              IF rem_w > 0
              THEN Verdict(Put(pol, Flow(packet), <<rem_r, rem_w - 1>>), None, TRUE)
              ELSE Verdict(pol, WRITE_EXCEEDED, FALSE)
         [] op = "rw" ->
              IF rem_r > 0 /\ rem_w > 0
              THEN Verdict(Put(pol, Flow(packet), <<rem_r - 1, rem_w - 1>>), None, TRUE)
              ELSE IF rem_r > 0 THEN Verdict(pol, READ_EXCEEDED, FALSE)
              ELSE IF rem_w > 0 THEN Verdict(pol, WRITE_EXCEEDED, FALSE)
              ELSE Verdict(pol, BOTH_EXCEEDED, FALSE)
         [] OTHER -> Verdict(pol, None, TRUE)

\* enforce_policies (lines 144-191).
enforce_policies(pol, packet) ==
    LET rem_r == Remaining(pol, packet)[1]
        rem_w == Remaining(pol, packet)[2]
        op == packet.PAYLOAD.OP
    IN CASE op = "r" ->
              IF rem_r > 0
              THEN Verdict(Put(pol, Flow(packet), <<rem_r - 1, rem_w>>), None, TRUE)
              ELSE Verdict(pol, READ_EXCEEDED, FALSE)
         [] op = "w" ->
              IF rem_w > 0
              THEN Verdict(Put(pol, Flow(packet), <<rem_r, rem_w - 1>>), None, TRUE)
              ELSE Verdict(pol, WRITE_EXCEEDED, FALSE)
         [] op = "rw" ->
              IF rem_r > 0 /\ rem_w > 0
              THEN Verdict(Put(pol, Flow(packet), <<rem_r - 1, rem_w - 1>>), None, TRUE)
              ELSE IF rem_r > 0 THEN Verdict(pol, WRITE_EXCEEDED, FALSE)
              ELSE IF rem_w > 0 THEN Verdict(pol, READ_EXCEEDED, FALSE)
              ELSE Verdict(pol, BOTH_EXCEEDED, FALSE)
         [] OTHER -> Verdict(pol, None, TRUE)

\* The switch state update() writes.
Local(t, p, f, r, e, a) ==
    [ftab |-> t, policies |-> p, filters |-> f, redirects |-> r, end |-> e, aliases |-> a]

\* The attributes that are the controller's own objects once `name` is bound to
\* the data of resp.
Bound(al, name, resp) ==
    IF resp.RESP_OBJ = "copy" THEN al \ {name} ELSE al \cup {name}

\* ApplyResponse that takes a table from NEW_TABLE only.
ApplyResponse_NewTableOnly(resp, st) ==
    CASE resp.RESP_TYPE = NEW_TABLE ->
              [st EXCEPT !.ftab = resp.RESP_DATA, !.aliases = Bound(@, "ftab", resp)]
      [] resp.RESP_TYPE = POLICIES -> [st EXCEPT !.policies = resp.RESP_DATA]
      [] resp.RESP_TYPE = FILTERS ->
              [st EXCEPT !.filters = resp.RESP_DATA, !.aliases = Bound(@, "filters", resp)]
      [] resp.RESP_TYPE = MOBILITY ->
              [st EXCEPT !.redirects = resp.RESP_DATA, !.aliases = Bound(@, "redirects", resp)]
      [] resp.RESP_TYPE = END -> [st EXCEPT !.end = TRUE]
      [] OTHER -> st

\* One response applied (the body of update() for the popped response).
ApplyResponse(resp, st) ==
    CASE resp.RESP_TYPE = NEW_TABLE ->
              [st EXCEPT !.ftab = resp.RESP_DATA, !.aliases = Bound(@, "ftab", resp)]
      [] resp.RESP_TYPE = UPDATED_TABLE ->
              [st EXCEPT !.ftab = resp.RESP_DATA, !.aliases = Bound(@, "ftab", resp)]
      [] resp.RESP_TYPE = POLICIES -> [st EXCEPT !.policies = resp.RESP_DATA]
      [] resp.RESP_TYPE = FILTERS ->
              [st EXCEPT !.filters = resp.RESP_DATA, !.aliases = Bound(@, "filters", resp)]
      [] resp.RESP_TYPE = MOBILITY ->
              [st EXCEPT !.redirects = resp.RESP_DATA, !.aliases = Bound(@, "redirects", resp)]
      [] resp.RESP_TYPE = END -> [st EXCEPT !.end = TRUE]
      [] OTHER -> st

\* update(): every pending response, oldest first, until the list is empty.
RECURSIVE update(_, _)
update(resps, st) ==
    IF resps = <<>> THEN st ELSE update(Tail(resps), ApplyResponse(Head(resps), st))

\* The filter stage: some installed filter returns true for the packet.
Filtered(fils, pkt) ==
    fils # None /\ \E k \in DOMAIN fils : CallFilter(fils[k], pkt).val

\* Destination without the mobility stage.
Destination_NoRedirect(reds, pkt) == pkt.DST_ADDR

\* The mobility stage: the destination the lookup uses.
Destination(reds, pkt) ==
    IF reds # None /\ pkt.DST_ADDR \in DOMAIN reds THEN reds[pkt.DST_ADDR] ELSE pkt.DST_ADDR

\* self.outports[out].put(x)
PutOut(outs, out, x) == [outs EXCEPT ![out + 1] = Append(@, x)]

\* UpdateCycle without `i > 0`.
UpdateCycle_FromZero(n) == n % 3 = 0

\* `i > 0 and (i % 3 == 0)` for the cycle that is starting.
UpdateCycle(n) == n > 0 /\ n % 3 = 0

\* IsSentinel that looks at the input port only.
IsSentinel_PortOnly(item) == item[1] = -1

\* The termination signal: input port -1 and an empty packet.
IsSentinel(item) == item[1] = -1 /\ item[2] = None

\* The request log with one more call.
Logged(type, data) == Append(requests, <<type, data>>)

\* What an attribute of the switch holds after a call of the controller: its
\* own value, or the controller's if the two are one object.
Seen(name, own, theirs) == IF name \in aliases THEN theirs ELSE own

\* Beginning of Switch.start: the NEW_TABLE request.  An exception that
\* escapes the request ends the thread.
SwitchStart ==
    /\ sw_pc = "start"
    /\ LET o == request(controller, NEW_TABLE, responses, Len(outports))
       IN /\ controller' = o.c
          /\ responses' = o.resp_list
          /\ sw_pc' = IF o.err = "none" THEN "loop" ELSE "crashed"
          /\ ftab' = Seen("ftab", ftab, o.c.last_sent_ftab)
          /\ filters' = Seen("filters", filters, o.c.filters)
          /\ redirects' = Seen("redirects", redirects, o.c.redirects)
    /\ requests' = Logged(NEW_TABLE, <<Len(outports)>>)
    /\ i' = -1
    /\ UNCHANGED <<inqueue, outports, policies, dropped, end, aliases,
                   producer, requeued, accepted, sentinels, lib_vars>>

\* A cycle with i > 0 and i % 3 == 0: the UPDATE request, nothing else.
SwitchRequestUpdate ==
    /\ sw_pc = "loop"
    /\ ~end
    /\ UpdateCycle(i + 1)
    /\ i' = i + 1
    /\ LET o == request(controller, UPDATE, responses, None)
       IN /\ controller' = o.c
          /\ responses' = o.resp_list
          /\ sw_pc' = IF o.err = "none" THEN "loop" ELSE "crashed"
          /\ ftab' = Seen("ftab", ftab, o.c.last_sent_ftab)
          /\ filters' = Seen("filters", filters, o.c.filters)
          /\ redirects' = Seen("redirects", redirects, o.c.redirects)
    /\ requests' = Logged(UPDATE, <<>>)
    /\ UNCHANGED <<inqueue, outports, policies, dropped, end, aliases,
                   producer, requeued, accepted, sentinels, lib_vars>>

\* SwitchUpdate that goes back to the loop test once END is applied.
SwitchUpdate_EndLeaves ==
    /\ sw_pc = "loop"
    /\ ~end
    /\ ~UpdateCycle(i + 1)
    /\ i' = i + 1
    /\ LET st == update(responses, Local(ftab, policies, filters, redirects, end, aliases))
       IN /\ ftab' = st.ftab
          /\ policies' = st.policies
          /\ filters' = st.filters
          /\ redirects' = st.redirects
          /\ end' = st.end
          /\ aliases' = st.aliases
    /\ accepted' = IF \E k \in DOMAIN responses : responses[k].RESP_TYPE = POLICIES
                   THEN <<>> ELSE accepted
    /\ responses' = <<>>
    /\ sw_pc' = IF \E k \in DOMAIN responses : responses[k].RESP_TYPE = END
                THEN "loop" ELSE "get"
    /\ UNCHANGED <<controller, inqueue, outports, dropped, producer, requests, requeued,
                   sentinels, lib_vars>>

\* Any other cycle, first half: update(); the thread then waits in inqueue.get().
SwitchUpdate ==
    /\ sw_pc = "loop"
    /\ ~end
    /\ ~UpdateCycle(i + 1)
    /\ i' = i + 1
    /\ LET st == update(responses, Local(ftab, policies, filters, redirects, end, aliases))
       IN /\ ftab' = st.ftab
          /\ policies' = st.policies
          /\ filters' = st.filters
          /\ redirects' = st.redirects
          /\ end' = st.end
          /\ aliases' = st.aliases
    /\ accepted' = IF \E k \in DOMAIN responses : responses[k].RESP_TYPE = POLICIES
                   THEN <<>> ELSE accepted
    /\ responses' = <<>>
    /\ sw_pc' = "get"
    /\ UNCHANGED <<controller, inqueue, outports, dropped, producer, requests, requeued,
                   sentinels, lib_vars>>

\* What processing a popped packet leaves (lines 241-287), given the inbound
\* queue after the pop.
Processed(q, outs, pol, drp, c, resps, reqs, rq, acc, err) ==
    [inqueue |-> q, outports |-> outs, policies |-> pol, dropped |-> drp,
     controller |-> c, responses |-> resps, requests |-> reqs, requeued |-> rq,
     accepted |-> acc, err |-> err]

\* The policy stage and what follows it, for a packet whose rule is active.
PolicyStage(port, pkt, rule, rest) ==
    LET v == IF policies # None THEN enforce_policies(policies, pkt)
             ELSE Verdict(policies, "", TRUE)
    IN IF v.cont
       THEN Processed(rest, PutOut(outports, rule.OUTPUT_LINK, pkt), v.policies, dropped,
                      controller, responses, requests, requeued,
                      IF policies # None THEN Append(accepted, pkt) ELSE accepted, "none")
       ELSE Processed(rest, outports, v.policies, Append(dropped, <<pkt, v.motivation>>),
                      controller, responses, requests, requeued, accepted, "none")

\* LookupStage that does not look at the rule's active flag.
LookupStage_IgnoreActive(port, pkt, destination, rest) ==
    IF destination \in DOMAIN ftab
    THEN PolicyStage(port, pkt, ftab[destination], rest)
    ELSE LET o == request(controller, NEW_RULE, responses, <<destination, Len(outports)>>)
         IN Processed(Append(rest, <<port, pkt>>), outports, policies, dropped,
                      o.c, o.resp_list,
                      Logged(NEW_RULE, <<destination, Len(outports)>>),
                      Append(requeued, <<port, pkt>>), accepted, o.err)

\* LookupStage that asks for a rule for the packet's own destination field.
LookupStage_AskOriginal(port, pkt, destination, rest) ==
    IF destination \in DOMAIN ftab
    THEN IF ftab[destination].ACTIVE
         THEN PolicyStage(port, pkt, ftab[destination], rest)
         ELSE Processed(rest, outports, policies, Append(dropped, <<pkt, INACTIVE_LINK>>),
                        controller, responses, requests, requeued, accepted, "none")
    ELSE LET o == request(controller, NEW_RULE, responses, <<pkt.DST_ADDR, Len(outports)>>)
         IN Processed(Append(rest, <<port, pkt>>), outports, policies, dropped,
                      o.c, o.resp_list,
                      Logged(NEW_RULE, <<pkt.DST_ADDR, Len(outports)>>),
                      Append(requeued, <<port, pkt>>), accepted, o.err)

\* LookupStage that asks for the rule on a miss and lets the packet go.
LookupStage_MissNoRequeue(port, pkt, destination, rest) ==
    IF destination \in DOMAIN ftab
    THEN IF ftab[destination].ACTIVE
         THEN PolicyStage(port, pkt, ftab[destination], rest)
         ELSE Processed(rest, outports, policies, Append(dropped, <<pkt, INACTIVE_LINK>>),
                        controller, responses, requests, requeued, accepted, "none")
    ELSE LET o == request(controller, NEW_RULE, responses, <<destination, Len(outports)>>)
         IN Processed(rest, outports, policies, dropped,
                      o.c, o.resp_list,
                      Logged(NEW_RULE, <<destination, Len(outports)>>),
                      Append(requeued, <<port, pkt>>), accepted, o.err)

\* LookupStage that hands the policy stage the packet readdressed to the
\* destination the lookup used.
LookupStage_ChargesTarget(port, pkt, destination, rest) ==
    IF destination \in DOMAIN ftab
    THEN IF ftab[destination].ACTIVE
         THEN PolicyStage(port, [pkt EXCEPT !.DST_ADDR = destination], ftab[destination], rest)
         ELSE Processed(rest, outports, policies, Append(dropped, <<pkt, INACTIVE_LINK>>),
                        controller, responses, requests, requeued, accepted, "none")
    ELSE LET o == request(controller, NEW_RULE, responses, <<destination, Len(outports)>>)
         IN Processed(Append(rest, <<port, pkt>>), outports, policies, dropped,
                      o.c, o.resp_list,
                      Logged(NEW_RULE, <<destination, Len(outports)>>),
                      Append(requeued, <<port, pkt>>), accepted, o.err)

\* The lookup stage: a hit goes on by the rule's active flag, a miss (KeyError)
\* requeues the item and asks the controller for a rule.
LookupStage(port, pkt, destination, rest) ==
    IF destination \in DOMAIN ftab
    THEN IF ftab[destination].ACTIVE
         THEN PolicyStage(port, pkt, ftab[destination], rest)
         ELSE Processed(rest, outports, policies, Append(dropped, <<pkt, INACTIVE_LINK>>),
                        controller, responses, requests, requeued, accepted, "none")
    ELSE LET o == request(controller, NEW_RULE, responses, <<destination, Len(outports)>>)
         IN Processed(Append(rest, <<port, pkt>>), outports, policies, dropped,
                      o.c, o.resp_list,
                      Logged(NEW_RULE, <<destination, Len(outports)>>),
                      Append(requeued, <<port, pkt>>), accepted, o.err)

\* ProcessPacket without the `if not filtered`: a filtered packet is recorded
\* and goes on through the pipeline.
ProcessPacket_FilterGoesOn(port, pkt, rest) ==
    LET r == LookupStage(port, pkt, Destination(redirects, pkt), rest)
    IN IF Filtered(filters, pkt)
       THEN [r EXCEPT !.dropped = <<<<pkt, FILTERED>>>> \o r.dropped]
       ELSE r

\* The packet pipeline: filters, then mobility, lookup and policy.
ProcessPacket(port, pkt, rest) ==
    IF Filtered(filters, pkt)
    THEN Processed(rest, outports, policies, Append(dropped, <<pkt, FILTERED>>),
                   controller, responses, requests, requeued, accepted, "none")
    ELSE LookupStage(port, pkt, Destination(redirects, pkt), rest)

\* Any other cycle, second half: inqueue.get() returns and the item is handled.
SwitchProcess ==
    /\ sw_pc = "get"
    /\ inqueue # <<>>
    /\ IF IsSentinel(Head(inqueue))
       THEN /\ end' = TRUE
            /\ inqueue' = Tail(inqueue)
            /\ sw_pc' = "loop"
            /\ UNCHANGED <<controller, outports, policies, responses, dropped,
                           requests, requeued, accepted, ftab, filters, redirects>>
       ELSE LET r == ProcessPacket(Head(inqueue)[1], Head(inqueue)[2], Tail(inqueue))
            IN /\ inqueue' = r.inqueue
               /\ outports' = r.outports
               /\ policies' = r.policies
               /\ dropped' = r.dropped
               /\ controller' = r.controller
               /\ responses' = r.responses
               /\ requests' = r.requests
               /\ requeued' = r.requeued
               /\ accepted' = r.accepted
               /\ sw_pc' = IF r.err = "none" THEN "loop" ELSE "crashed"
               /\ ftab' = Seen("ftab", ftab, r.controller.last_sent_ftab)
               /\ filters' = Seen("filters", filters, r.controller.filters)
               /\ redirects' = Seen("redirects", redirects, r.controller.redirects)
               /\ UNCHANGED end
    /\ UNCHANGED <<i, aliases, sentinels, producer, lib_vars>>

\* SwitchStop that puts the stop marker on the first output queue only.
SwitchStop_FirstOnly ==
    /\ sw_pc = "loop"
    /\ end
    /\ outports' = [outports EXCEPT ![1] = Append(@, STOP)]
    /\ sw_pc' = "done"
    /\ UNCHANGED <<controller, inqueue, ftab, policies, filters, redirects, responses,
                   dropped, end, i, aliases, producer, history_vars, lib_vars>>

\* The loop test fails: the stop marker goes on every output queue.
SwitchStop ==
    /\ sw_pc = "loop"
    /\ end
    /\ outports' = [k \in DOMAIN outports |-> Append(outports[k], STOP)]
    /\ sw_pc' = "done"
    /\ UNCHANGED <<controller, inqueue, ftab, policies, filters, redirects, responses,
                   dropped, end, i, aliases, producer, history_vars, lib_vars>>

\* ---------------------------------------------------------------- producer.py

\* Producer.__init__.  no_packets is float('inf') by default and -float('inf')
\* after stop(); pc is the thread's position in run(), gen_started whether the
\* generator has yielded yet.
NewProducer(id, srcrange, dstrange, ports, step) ==
    [ id          |-> id,
      no_packets  |-> "inf",
      sources     |-> srcrange,
      dests       |-> dstrange,
      destports   |-> ports,
      count1      |-> 0,
      count2      |-> 0,
      count3      |-> 0,
      step        |-> step,
      stepWait    |-> step,
      stopped     |-> FALSE,
      i           |-> 0,
      gen_started |-> FALSE,
      pc          |-> "test" ]

\* operation(num) of the generator.
operation(num) ==
    CASE num % 4 = 0 -> "r"
      [] num % 4 = 1 -> "w"
      [] num % 4 = 2 -> "rw"
      [] OTHER -> "o"

\* n + 1, back to 0 at len.
Wrap(n, len) == IF n + 1 >= len THEN 0 ELSE n + 1

\* The generator resumed: the counters advance after every yield but the first.
Resume(p) ==
    IF ~p.gen_started THEN [p EXCEPT !.gen_started = TRUE]
    ELSE [p EXCEPT !.count1 = Wrap(p.count1, Len(p.sources)),
                   !.count2 = Wrap(p.count2, Len(p.dests)),
                   !.count3 = Wrap(p.count3, Len(p.destports))]

\* The packet the generator yields at its counters.
Yield(p) ==
    Packet(p.sources[p.count1 + 1], p.dests[p.count2 + 1], p.destports[p.count3 + 1],
           operation(p.count1))

\* `i < self.no_packets`
Below(n, no_packets) == no_packets = "inf"

\* The loop test of run().
ProducerTest ==
    /\ producer.pc = "test"
    /\ producer' = [producer EXCEPT
                      !.pc = IF Below(producer.i, producer.no_packets) /\ ~producer.stopped
                             THEN "send" ELSE "done"]
    /\ UNCHANGED <<controller, switch_vars, history_vars, lib_vars>>

\* The loop body of run(): past the step wait, a packet is put, or the
\* termination signal if stop() came after the loop test.  (Switch.put_packet)
ProducerSend ==
    /\ producer.pc = "send"
    /\ ~producer.stepWait
    /\ Len(inqueue) < MaxQueue
    /\ LET p1 == [producer EXCEPT !.stepWait = producer.step, !.i = producer.i + 1,
                                  !.pc = "test"]
       IN IF ~p1.stopped
          THEN /\ producer' = Resume(p1)
               /\ inqueue' = Append(inqueue, <<p1.id, Yield(Resume(p1))>>)
               /\ sentinels' = sentinels
          ELSE /\ producer' = p1
               /\ inqueue' = Append(inqueue, <<-1, None>>)
               /\ sentinels' = sentinels + 1
    /\ UNCHANGED <<controller, outports, ftab, policies, filters, redirects, responses,
                   dropped, end, i, sw_pc, aliases, requests, requeued, accepted,
                   lib_vars>>

\* Producer.stop(), called from another thread while the producer runs.
ProducerStop ==
    /\ producer.pc # "done"
    /\ ~producer.stopped
    /\ producer' = [producer EXCEPT !.no_packets = "-inf", !.stepWait = FALSE,
                                    !.stopped = TRUE]
    /\ UNCHANGED <<controller, switch_vars, history_vars, lib_vars>>

\* ------------------------------------------------------------- the simulation

\* n copies of x.
Rep(n, x) == [k \in 1..n |-> x]

\* A run of the simulation is fixed by what main() passes to the constructors.
Scenario(network, optargs, no_outports, id, sources, dests, destports) ==
    [network |-> network, optargs |-> optargs, no_outports |-> no_outports, id |-> id,
     sources |-> sources, dests |-> dests, destports |-> destports]

Scenarios ==
    { \* four flows, one per operation, over both addresses of the network
      Scenario(<<1, 2>>, <<>>, 2, 1, <<11, 12, 13, 14>>, <<1, 2>>, <<500>>),
      \* every operation in one flow, destination ports on both sides of 450
      Scenario(<<1, 2, 3>>, <<>>, 2, 1, <<11, 11, 11, 11>>, <<2>>, <<500, 80, 500>>),
      \* one flow of reads only
      Scenario(<<1, 2>>, <<>>, 1, 0, <<11>>, <<2>>, <<500>>),
      \* writes and read-writes of one flow, reads of another
      Scenario(<<1, 2>>, <<>>, 2, 0, <<12, 11, 11>>, <<2>>, <<500>>),
      \* reads and read-writes of one flow, writes of another
      Scenario(<<1, 2>>, <<>>, 2, 0, <<11, 12, 11>>, <<2>>, <<500>>),
      \* six flows to the one address no scripted action touches
      Scenario(<<1, 2>>, <<>>, 2, 0, <<11, 12, 13, 14, 15, 16>>, <<2>>, <<500>>),
      \* a destination outside the network that is below every address of it
      Scenario(<<2>>, <<>>, 2, 1, <<11>>, Rep(8, 2) \o <<1>>, <<500>>),
      \* a destination first seen after the filters are installed
      Scenario(<<2, 3>>, <<>>, 2, 0, <<11, 12>>, Rep(23, 3) \o <<1>>, <<80>>),
      \* configured targets, a redirect to an address outside the network
      Scenario(<<1, 2>>, <<1, 2, 1, 4>>, 2, 1, <<11, 12>>, <<1, 2, 3>>, <<500>>),
      \* a producer whose id, the input port of its packets, is -1
      Scenario(<<1, 2>>, <<>>, 1, -1, <<11, 12>>, <<1, 3>>, <<500>>),
      \* a destination first seen by the item of the cycle that applies END
      Scenario(<<2, 3>>, <<>>, 2, 0, <<11>>, Rep(45, 3) \o <<1>>, <<500>>),
      \* one source sending to both ends of the redirect, with quota to spare
      Scenario(<<1, 2>>, <<>>, 2, 0, <<11, 12, 13, 14, 15>>, <<1, 2>>, <<500>>),
      \* a destination below the network first seen in the cycle before the delete
      Scenario(<<2>>, <<>>, 2, 0, <<11>>, Rep(14, 2) \o <<1>>, <<500>>) }

NoCall == [op |-> "none", interfaces |-> <<>>, network |-> <<>>, addr |-> NoAddr,
           err |-> "none"]

\* No request made to the controller directly.
NoRequest == [type |-> "none", data |-> <<>>, err |-> "none", seq |-> 0]

Init ==
    \E s \in Scenarios :
        /\ controller = NewController(s.network, s.optargs)
        /\ inqueue = <<>>
        /\ outports = [k \in 1..s.no_outports |-> <<>>]
        /\ ftab = EmptyMap
        /\ policies = None
        /\ filters = None
        /\ redirects = None
        /\ responses = <<>>
        /\ dropped = <<>>
        /\ end = FALSE
        /\ i = -1
        /\ sw_pc = "start"
        /\ producer = NewProducer(s.id, s.sources, s.dests, s.destports, FALSE)
        /\ requests = <<>>
        /\ requeued = <<>>
        /\ accepted = <<>>
        /\ aliases = {}
        /\ sentinels = 0
        /\ lib_ftab = EmptyMap
        /\ lib_call = NoCall
        /\ lib_filtable = <<>>
        /\ ctl_call = NoRequest
        /\ signals = 0
        /\ caller = "idle"
        /\ consumers = <<>>
        /\ was_put = <<>>

Next ==
    \/ SwitchStart
    \/ SwitchRequestUpdate
    \/ SwitchUpdate
    \/ SwitchProcess
    \/ SwitchStop
    \/ ProducerTest
    \/ ProducerSend
    \/ ProducerStop

Spec == Init /\ [][Next]_vars

\* --------------------------------------------------- lib.py, driven directly

\* The addresses and the interface lists the calls are made with.  Interface
\* identifiers are 11, 12, ...: an identifier is not its position.
LibAddrs == {1, 2, 3}

LibNetworks == UNION {[1..n -> LibAddrs] : n \in 0..MaxNetLen}

LibInterfaces == {[k \in 1..n |-> 10 + k] : n \in 0..MaxIfLen}

Call(op, interfaces, network, addr, err) ==
    [op |-> op, interfaces |-> interfaces, network |-> network, addr |-> addr, err |-> err]

\* install(interfaces, network, ftable)
LibInstall ==
    \E interfaces \in LibInterfaces, network \in LibNetworks :
        LET r == install(interfaces, network, lib_ftab)
        IN /\ lib_ftab' = r.ftable
           /\ lib_call' = Call("install", interfaces, network, NoAddr, r.err)
           /\ UNCHANGED <<controller, switch_vars, producer, history_vars,
                          lib_filtable, ctl_call, signals, caller,
                          consumers, was_put>>

\* add_rule_for(newaddr, interfaces, ftab)
LibAddRuleFor ==
    \E newaddr \in LibAddrs, interfaces \in LibInterfaces :
        LET r == add_rule_for(newaddr, interfaces, lib_ftab)
        IN /\ lib_ftab' = r.ftable
           /\ lib_call' = Call("add_rule_for", interfaces, <<>>, newaddr, r.err)
           /\ UNCHANGED <<controller, switch_vars, producer, history_vars,
                          lib_filtable, ctl_call, signals, caller,
                          consumers, was_put>>

\* drop(addr, ftab)
LibDrop ==
    \E addr \in LibAddrs :
        LET r == drop(addr, lib_ftab)
        IN /\ lib_ftab' = r.ftable
           /\ lib_call' = Call("drop", <<>>, <<>>, addr, r.err)
           /\ UNCHANGED <<controller, switch_vars, producer, history_vars,
                          lib_filtable, ctl_call, signals, caller,
                          consumers, was_put>>

\* reactivate(addr, ftab)
LibReactivate ==
    \E addr \in LibAddrs :
        LET r == reactivate(addr, lib_ftab)
        IN /\ lib_ftab' = r.ftable
           /\ lib_call' = Call("reactivate", <<>>, <<>>, addr, r.err)
           /\ UNCHANGED <<controller, switch_vars, producer, history_vars,
                          lib_filtable, ctl_call, signals, caller,
                          consumers, was_put>>

\* delete(addr, ftab)
LibDelete ==
    \E addr \in LibAddrs :
        LET r == delete(addr, lib_ftab)
        IN /\ lib_ftab' = r.ftable
           /\ lib_call' = Call("delete", <<>>, <<>>, addr, r.err)
           /\ UNCHANGED <<controller, switch_vars, producer, history_vars,
                          lib_filtable, ctl_call, signals, caller,
                          consumers, was_put>>

\* No simulation runs beside the calls: its objects stay as constructed.
LibInit ==
    /\ controller = NewController(<<>>, <<>>)
    /\ inqueue = <<>>
    /\ outports = <<>>
    /\ ftab = EmptyMap
    /\ policies = None
    /\ filters = None
    /\ redirects = None
    /\ responses = <<>>
    /\ dropped = <<>>
    /\ end = FALSE
    /\ i = -1
    /\ sw_pc = "start"
    /\ producer = NewProducer(0, <<>>, <<>>, <<>>, FALSE)
    /\ requests = <<>>
    /\ requeued = <<>>
    /\ accepted = <<>>
    /\ aliases = {}
    /\ sentinels = 0
    /\ lib_ftab = EmptyMap
    /\ lib_call = NoCall
    /\ lib_filtable = <<>>
    /\ ctl_call = NoRequest
    /\ signals = 0
    /\ caller = "idle"
    /\ consumers = <<>>
    /\ was_put = <<>>

LibNext ==
    \/ LibInstall
    \/ LibAddRuleFor
    \/ LibDrop
    \/ LibReactivate
    \/ LibDelete

LibSpec == LibInit /\ [][LibNext]_vars

\* ------------------------------------------- install_filter, driven directly

\* The candidates: the four of controller.py and the two further predicates.
Candidates == {bad_function1, bad_function2, bad_function3,
               good_function, always_true, always_false}

\* install_filter(filtable, fun); its bare `except` lets nothing out.
LibInstallFilter ==
    /\ Len(lib_filtable) < MaxChain
    /\ \E fun \in Candidates :
          LET r == install_filter(lib_filtable, fun)
          IN /\ lib_filtable' = r.filtable
             /\ lib_call' = [op |-> "install_filter", fun |-> fun, ok |-> r.ok,
                             err |-> "none"]
    /\ UNCHANGED <<controller, switch_vars, producer, history_vars, lib_ftab, ctl_call,
                   signals, caller,
                   consumers, was_put>>

FilterNext == LibInstallFilter

FilterSpec == LibInit /\ [][FilterNext]_vars

\* --------------------------------------------- controller.py, driven directly

\* What the controllers are constructed with, and what the requests carry: the
\* destination of a NEW_RULE (one of the network, one outside every network) and
\* the number of output ports.
CtlSetup(network, optargs) == [network |-> network, optargs |-> optargs]

CtlSetups ==
    { \* no terminal at all
      CtlSetup(<<>>, <<>>),
      \* two terminals, targets read from the table
      CtlSetup(<<2, 3>>, <<>>),
      \* configured targets, one of the network and two outside it
      CtlSetup(<<2>>, <<1, 2, 1, 4>>) }

CtlAddrs == {1, 4}

CtlPorts == {0, 2}

\* The response list a caller passes: the one it holds, or a new one.
Sink == IF Len(responses) <= MaxSink THEN responses ELSE <<>>

\* controller.request(type, resp_list, data), whatever it leaves or raises.
\* seq tells two equal requests in a row apart.
Asked(type, data, logged) ==
    LET o == request(controller, type, Sink, data)
    IN /\ controller' = o.c
       /\ responses' = o.resp_list
       /\ ctl_call' = [type |-> type, data |-> logged, err |-> o.err,
                       seq |-> 1 - ctl_call.seq]
       /\ UNCHANGED <<inqueue, outports, ftab, policies, filters, redirects, dropped,
                      end, i, sw_pc, aliases, producer, history_vars, lib_ftab,
                      lib_call, lib_filtable, signals, caller,
                      consumers, was_put>>

CtlNewTable == \E ports \in CtlPorts : Asked(NEW_TABLE, ports, <<ports>>)

CtlNewRule ==
    \E which \in CtlAddrs, ports \in CtlPorts :
        Asked(NEW_RULE, <<which, ports>>, <<which, ports>>)

CtlUpdate ==
    /\ controller.requested_updates < MaxUpdates
    /\ Asked(UPDATE, None, <<>>)

CtlInit ==
    /\ \E s \in CtlSetups : controller = NewController(s.network, s.optargs)
    /\ inqueue = <<>>
    /\ outports = <<>>
    /\ ftab = EmptyMap
    /\ policies = None
    /\ filters = None
    /\ redirects = None
    /\ responses = <<>>
    /\ dropped = <<>>
    /\ end = FALSE
    /\ i = -1
    /\ sw_pc = "start"
    /\ producer = NewProducer(0, <<>>, <<>>, <<>>, FALSE)
    /\ requests = <<>>
    /\ requeued = <<>>
    /\ accepted = <<>>
    /\ aliases = {}
    /\ sentinels = 0
    /\ lib_ftab = EmptyMap
    /\ lib_call = NoCall
    /\ lib_filtable = <<>>
    /\ ctl_call = NoRequest
    /\ signals = 0
    /\ caller = "idle"
    /\ consumers = <<>>
    /\ was_put = <<>>

CtlNext ==
    \/ CtlNewTable
    \/ CtlNewRule
    \/ CtlUpdate

CtlSpec == CtlInit /\ [][CtlNext]_vars

\* ------------------------------------------------------------------ claims

\* The elements of a list.
Elems(seq) == {seq[k] : k \in DOMAIN seq}

\* No element twice.
Distinct(seq) == \A j, k \in DOMAIN seq : j # k => seq[j] # seq[k]

\* C1: after install with a non-empty interface list of length M and a
\* non-empty network list of N distinct addresses, the call has returned, the
\* table's keys are exactly the N addresses (whatever it held before), and the
\* address at 0-based position n has the interface at position n mod M and is
\* active.
C1_InstallRoundRobin ==
    (/\ lib_call.op = "install"
     /\ lib_call.interfaces # <<>>
     /\ lib_call.network # <<>>
     /\ Distinct(lib_call.network))
    => /\ lib_call.err = "none"
       /\ DOMAIN lib_ftab = Elems(lib_call.network)
       /\ \A n \in DOMAIN lib_call.network :
              lib_ftab[lib_call.network[n]] =
                  Rule(lib_call.interfaces[((n - 1) % Len(lib_call.interfaces)) + 1], TRUE)

\* C1, witness: the network [1, 2, 3] installed over two interfaces: 1 and 3 on
\* the first interface, 2 on the second, all active.
C1_Witness ==
    /\ lib_call.op = "install"
    /\ lib_call.network = <<1, 2, 3>>
    /\ lib_call.interfaces = <<11, 12>>
    /\ lib_ftab = (1 :> Rule(11, TRUE)) @@ (2 :> Rule(12, TRUE)) @@ (3 :> Rule(11, TRUE))

\* C2: install raises IndexError whenever the interface list or the network
\* list is empty.
C2_InstallEmptyFails ==
    (/\ lib_call.op = "install"
     /\ (lib_call.interfaces = <<>> \/ lib_call.network = <<>>))
    => lib_call.err = "IndexError"

\* ---- the switch's packet pipeline

\* The last element of a non-empty list.
Last(seq) == seq[Len(seq)]

\* This step is the switch handling the packet at the head of its inbound
\* queue (the second half of a cycle, on an item that is no termination signal).
HandlesPacket == sw_pc = "get" /\ sw_pc' # "get" /\ ~IsSentinel(Head(inqueue))

\* The packet being handled and the item it came in.
Item == Head(inqueue)
Pkt == Head(inqueue)[2]

\* Some installed filter predicate returns true for the packet being handled.
SomeFilterMatches == \E k \in DOMAIN filters : CallFilter(filters[k], Pkt).val

\* The destination the packet being handled is looked up under.
EffectiveDst == IF Pkt.DST_ADDR \in DOMAIN redirects THEN redirects[Pkt.DST_ADDR]
                ELSE Pkt.DST_ADDR

\* The policy stage lets the packet being handled through.
PolicyAccepts == policies = None \/ enforce_policies(policies, Pkt).cont

\* C3: a packet for which some installed filter returns true is appended to the
\* dropped list with reason "filtered"; in that cycle no output queue changes,
\* the item leaves the inbound queue and nothing is put back on it, no request
\* goes to the controller (so no NEW_RULE, whether or not the destination has a
\* rule) and the policy table is unchanged.
C3_FilteredFirst ==
    [][(HandlesPacket /\ SomeFilterMatches)
       => /\ dropped' = Append(dropped, <<Pkt, FILTERED>>)
          /\ outports' = outports
          /\ inqueue' = Tail(inqueue)
          /\ requests' = requests
          /\ requeued' = requeued
          /\ policies' = policies
          /\ controller' = controller]_vars

\* C3, witness: a packet has been dropped as filtered while neither the switch's
\* table nor the controller's has a rule for its destination, and a policy is
\* installed.
C3_Witness ==
    /\ dropped # <<>>
    /\ Last(dropped)[2] = FILTERED
    /\ Last(dropped)[1].DST_ADDR \notin DOMAIN ftab
    /\ Last(dropped)[1].DST_ADDR \notin DOMAIN controller.last_sent_ftab
    /\ policies # None
    /\ sw_pc = "loop"

\* C4: a non-filtered packet whose effective destination has an inactive rule is
\* appended to the dropped list with reason "inactive link", no output queue and
\* no quota changes.  While the deactivation of counter 2 is the last table
\* action the switch has applied (counter 2 or 3 when a packet is handled) the
\* deactivated address has an inactive rule and every packet addressed to it is
\* dropped this way; once the reactivation is applied (counter 4 or 5) the
\* reactivated address has an active rule, and until the policy comes (counter
\* 8) a packet whose destination has an active rule is put on that rule's queue.
C4_Window ==
    sw_pc = "get"
    => /\ controller.requested_updates \in 2..3
          => /\ controller.todrop \in DOMAIN ftab
             /\ ~ftab[controller.todrop].ACTIVE
       /\ controller.requested_updates \in 4..5
          => /\ controller.todrop \in DOMAIN ftab
             /\ ftab[controller.todrop].ACTIVE

C4_Step ==
    HandlesPacket
    => /\ (/\ ~SomeFilterMatches
           /\ EffectiveDst \in DOMAIN ftab
           /\ ~ftab[EffectiveDst].ACTIVE)
          => /\ dropped' = Append(dropped, <<Pkt, INACTIVE_LINK>>)
             /\ outports' = outports
             /\ policies' = policies
             /\ inqueue' = Tail(inqueue)
       /\ (/\ controller.requested_updates \in 2..3
           /\ Pkt.DST_ADDR = controller.todrop)
          => /\ dropped' = Append(dropped, <<Pkt, INACTIVE_LINK>>)
             /\ outports' = outports
       /\ (/\ controller.requested_updates \in 4..7
           /\ Pkt.DST_ADDR \in DOMAIN ftab
           /\ ftab[Pkt.DST_ADDR].ACTIVE)
          => /\ outports' = PutOut(outports, ftab[Pkt.DST_ADDR].OUTPUT_LINK, Pkt)
             /\ dropped' = dropped

C5_MissRequeues ==
    [][(HandlesPacket /\ ~SomeFilterMatches /\ EffectiveDst \notin DOMAIN ftab)
       => /\ inqueue' = Append(Tail(inqueue), Item)
          /\ requests' = Append(requests, <<NEW_RULE, <<EffectiveDst, Len(outports)>> >>)
          /\ outports' = outports
          /\ dropped' = dropped]_vars

\* C5, witness: a redirected packet from input port 1 has just missed: it is
\* at the tail of the inbound queue behind another item, and the last request
\* is a NEW_RULE for the redirect's target, not for the packet's destination.
C5_Witness ==
    /\ sw_pc = "loop"
    /\ requeued # <<>>
    /\ Len(inqueue) >= 2
    /\ Last(inqueue) = Last(requeued)
    /\ Last(requeued)[1] = 1
    /\ Last(requests)[1] = NEW_RULE
    /\ Last(requeued)[2].DST_ADDR \in DOMAIN redirects
    /\ Last(requests)[2][1] = redirects[Last(requeued)[2].DST_ADDR]
    /\ Last(requests)[2][1] # Last(requeued)[2].DST_ADDR

\* The reasons a packet is dropped for.
Reasons == {FILTERED, INACTIVE_LINK, READ_EXCEEDED, WRITE_EXCEEDED, BOTH_EXCEEDED}

\* C6 as stated: no packet is lost across a miss, every requeued packet is
\* eventually put on an output queue once the table has an entry for its
\* destination.  When the switch has stopped nothing more is delivered, so by
\* then every requeued packet whose destination has an entry is on a queue.
C6_Original ==
    sw_pc = "done"
    => \A k \in DOMAIN requeued :
          Destination(redirects, requeued[k][2]) \in DOMAIN ftab
          => \E q \in DOMAIN outports : requeued[k][2] \in Elems(outports[q])

\* C6, amended: a packet whose destination has no entry is requeued and the
\* controller's answer to the request carries an entry for that destination;
\* a requeued packet is never lost silently: it is still in the inbound queue,
\* or on an output queue, or in the dropped list with a reason.  Each time it
\* is popped again it is put on exactly one output queue, or dropped with a
\* reason, or requeued again; it is put on its rule's queue when no filter
\* matches, the rule is active and the policy accepts it.
C6_Accounted ==
    \A k \in DOMAIN requeued :
        \/ requeued[k] \in Elems(inqueue)
        \/ \E q \in DOMAIN outports : requeued[k][2] \in Elems(outports[q])
        \/ \E r \in Reasons : <<requeued[k][2], r>> \in Elems(dropped)

C6_Step ==
    HandlesPacket
    => /\ \/ /\ \E q \in DOMAIN outports :
                   outports' = [outports EXCEPT ![q] = Append(@, Pkt)]
             /\ dropped' = dropped
             /\ inqueue' = Tail(inqueue)
             /\ requeued' = requeued
          \/ /\ \E r \in Reasons : dropped' = Append(dropped, <<Pkt, r>>)
             /\ outports' = outports
             /\ inqueue' = Tail(inqueue)
             /\ requeued' = requeued
          \/ /\ inqueue' = Append(Tail(inqueue), Item)
             /\ requeued' = Append(requeued, Item)
             /\ outports' = outports
             /\ dropped' = dropped
             /\ ~SomeFilterMatches
             /\ EffectiveDst \notin DOMAIN ftab
       /\ (requeued' # requeued /\ sw_pc' = "loop")
          => /\ EffectiveDst \in DOMAIN controller'.last_sent_ftab
             /\ responses' # <<>>
             /\ Last(responses').RESP_TYPE = UPDATED_TABLE
             /\ EffectiveDst \in DOMAIN Last(responses').RESP_DATA
       /\ (/\ Item \in Elems(requeued)
           /\ ~SomeFilterMatches
           /\ EffectiveDst \in DOMAIN ftab
           /\ ftab[EffectiveDst].ACTIVE
           /\ PolicyAccepts)
          => outports' = PutOut(outports, ftab[EffectiveDst].OUTPUT_LINK, Pkt)

C6_Amended == []C6_Accounted /\ [][C6_Step]_vars

\* C6, witness: the one packet requeued so far has left the inbound queue
\* again, was not dropped, and is on an output queue.
C6_Witness ==
    /\ Len(requeued) = 1
    /\ requeued[1] \notin Elems(inqueue)
    /\ \A r \in Reasons : <<requeued[1][2], r>> \notin Elems(dropped)
    /\ \E q \in DOMAIN outports : requeued[1][2] \in Elems(outports[q])
    /\ Destination(redirects, requeued[1][2]) \in DOMAIN ftab

\* Redirect maps over three addresses, chains and cycles among them.
RedirectMaps == UNION {[S -> 1..3] : S \in (SUBSET (1..3)) \ {{}}}

\* C7: a non-filtered packet whose destination d is a key of the redirect map
\* is looked up under redirects[d]: a miss asks a rule for redirects[d], an
\* inactive rule of redirects[d] drops it and an active one sends it to that
\* rule's port, whatever rule d itself has; the map is applied once (for every
\* map, the lookup destination is redirects[d] even when redirects[d] is a key
\* too); and the packet put on the queue is the packet as it came, d still its
\* destination field.
C7_OneHop ==
    \A reds \in RedirectMaps : \A d \in DOMAIN reds :
        Destination(reds, Packet(11, d, 500, "r")) = reds[d]

C7_Step ==
    (HandlesPacket /\ ~SomeFilterMatches /\ Pkt.DST_ADDR \in DOMAIN redirects)
    => LET e == redirects[Pkt.DST_ADDR]
       IN /\ e \notin DOMAIN ftab
             => /\ requests' = Append(requests, <<NEW_RULE, <<e, Len(outports)>> >>)
                /\ outports' = outports
          /\ (e \in DOMAIN ftab /\ ~ftab[e].ACTIVE)
             => /\ dropped' = Append(dropped, <<Pkt, INACTIVE_LINK>>)
                /\ outports' = outports
          /\ (e \in DOMAIN ftab /\ ftab[e].ACTIVE /\ PolicyAccepts)
             => /\ outports' = [outports EXCEPT ![ftab[e].OUTPUT_LINK + 1] = Append(@, Pkt)]
                /\ Last(outports'[ftab[e].OUTPUT_LINK + 1]).DST_ADDR = Pkt.DST_ADDR

C7_Redirect == []C7_OneHop /\ [][C7_Step]_vars

\* C7, witness: a packet addressed to the redirected address d, which has an
\* active rule of its own on another port, is the last item of the queue of
\* the rule of redirects[d].
C7_Witness ==
    /\ sw_pc = "loop"
    /\ \E d \in DOMAIN redirects :
          /\ d \in DOMAIN ftab
          /\ redirects[d] \in DOMAIN ftab
          /\ ftab[d].ACTIVE
          /\ ftab[d].OUTPUT_LINK # ftab[redirects[d]].OUTPUT_LINK
          /\ outports[ftab[redirects[d]].OUTPUT_LINK + 1] # <<>>
          /\ Last(outports[ftab[redirects[d]].OUTPUT_LINK + 1]).DST_ADDR = d
          /\ accepted # <<>>
          /\ Last(accepted).DST_ADDR = d

\* The packets accepted under the policy that consume a read, a write, of a flow.
Reads(f) == Cardinality({k \in DOMAIN accepted :
                Flow(accepted[k]) = f /\ accepted[k].PAYLOAD.OP \in {"r", "rw"}})
Writes(f) == Cardinality({k \in DOMAIN accepted :
                Flow(accepted[k]) = f /\ accepted[k].PAYLOAD.OP \in {"w", "rw"}})

\* The packet being handled reaches the policy stage under an installed policy.
ReachesPolicy ==
    /\ HandlesPacket
    /\ ~SomeFilterMatches
    /\ EffectiveDst \in DOMAIN ftab
    /\ ftab[EffectiveDst].ACTIVE
    /\ policies # None

\* C8: once the policy is installed its default quota is (3, 3), and for every
\* flow the accepted packets that consume a read are at most 3 and those that
\* consume a write at most 3 (the flow's entry is what is left of the default);
\* a read packet that reaches the policy stage is put on its rule's queue while
\* fewer than 3 reads of its flow were accepted and is dropped with the
\* reads-exceeded reason from the fourth on.
C8_Quota ==
    policies # None
    => /\ policies[PoliciesKey] = <<3, 3>>
       /\ \A k \in DOMAIN accepted :
             LET f == Flow(accepted[k])
             IN /\ Reads(f) <= policies[PoliciesKey][1]
                /\ Writes(f) <= policies[PoliciesKey][2]
                /\ Reads(f) + Writes(f) > 0 => f \in DOMAIN policies
       /\ \A f \in DOMAIN policies \ {PoliciesKey} :
             policies[f] = <<policies[PoliciesKey][1] - Reads(f),
                             policies[PoliciesKey][2] - Writes(f)>>

C8_Step ==
    (ReachesPolicy /\ Pkt.PAYLOAD.OP = "r")
    => IF Reads(Flow(Pkt)) < 3
       THEN /\ outports' = PutOut(outports, ftab[EffectiveDst].OUTPUT_LINK, Pkt)
            /\ dropped' = dropped
       ELSE /\ dropped' = Append(dropped, <<Pkt, READ_EXCEEDED>>)
            /\ outports' = outports

C8_PolicyBound == []C8_Quota /\ [][C8_Step]_vars

\* C8, witness: under the quota (3, 3) the first four packets that reached the
\* policy stage were reads of one flow: three are accepted and the fourth is
\* the one drop, for reads exceeded.
C8_Witness ==
    /\ policies # None
    /\ policies[PoliciesKey] = <<3, 3>>
    /\ Len(accepted) = 3
    /\ \A k \in DOMAIN accepted :
          accepted[k].PAYLOAD.OP = "r" /\ Flow(accepted[k]) = Flow(accepted[1])
    /\ Len(dropped) = 1
    /\ dropped[1][2] = READ_EXCEEDED
    /\ dropped[1][1].PAYLOAD.OP = "r"
    /\ Flow(dropped[1][1]) = Flow(accepted[1])

\* C9: a read-write packet that reaches the policy stage with (r, w) left for
\* its flow: r > 0 and w > 0, it is put on its rule's queue and the flow is
\* left with (r-1, w-1); r > 0 and w = 0, dropped for writes exceeded; r = 0
\* and w > 0, dropped for reads exceeded; r = 0 and w = 0, dropped for both;
\* a rejection leaves the policy table as it was.
C9_Step ==
    (ReachesPolicy /\ Pkt.PAYLOAD.OP = "rw")
    => LET r == Remaining(policies, Pkt)[1]
           w == Remaining(policies, Pkt)[2]
       IN /\ r >= 0 /\ w >= 0
          /\ (r > 0 /\ w > 0)
             => /\ outports' = PutOut(outports, ftab[EffectiveDst].OUTPUT_LINK, Pkt)
                /\ dropped' = dropped
                /\ policies'[Flow(Pkt)] = <<r - 1, w - 1>>
                /\ \A f \in DOMAIN policies : f # Flow(Pkt) => policies'[f] = policies[f]
          /\ (r > 0 /\ w = 0)
             => /\ dropped' = Append(dropped, <<Pkt, WRITE_EXCEEDED>>)
                /\ outports' = outports
                /\ policies' = policies
          /\ (r = 0 /\ w > 0)
             => /\ dropped' = Append(dropped, <<Pkt, READ_EXCEEDED>>)
                /\ outports' = outports
                /\ policies' = policies
          /\ (r = 0 /\ w = 0)
             => /\ dropped' = Append(dropped, <<Pkt, BOTH_EXCEEDED>>)
                /\ outports' = outports
                /\ policies' = policies

C9_ReadWrite == [][C9_Step]_vars

\* C9, witness: a read-write packet has just been dropped for writes exceeded
\* while its flow has reads left and no write, after read-write packets of
\* that flow were accepted.
C9_Witness ==
    /\ policies # None
    /\ dropped # <<>>
    /\ Last(dropped)[2] = WRITE_EXCEEDED
    /\ Last(dropped)[1].PAYLOAD.OP = "rw"
    /\ Flow(Last(dropped)[1]) \in DOMAIN policies
    /\ policies[Flow(Last(dropped)[1])][1] > 0
    /\ policies[Flow(Last(dropped)[1])][2] = 0
    /\ \E k \in DOMAIN accepted :
          accepted[k].PAYLOAD.OP = "rw" /\ Flow(accepted[k]) = Flow(Last(dropped)[1])

\* The stop markers on an output queue.
Stops(q) == Cardinality({k \in DOMAIN q : q[k] = STOP})

\* C10 as stated: from the moment the end flag is true no packet is put on an
\* output queue, a queue only ever receives the stop marker.
C10_Original ==
    [][end => \A k \in DOMAIN outports :
                 \/ outports'[k] = outports[k]
                 \/ outports'[k] = Append(outports[k], STOP)]_vars

\* C10, amended: the cycle that applies the END response still takes one item
\* from the inbound queue and handles it, so at most one more packet is put on
\* an output queue after the end flag became true; a termination signal read
\* from the inbound queue puts nothing.  After that cycle the switch leaves the
\* loop: it puts exactly one stop marker on every output queue, no queue holds
\* a marker before, and once the markers are put no queue changes again.
C10_Markers ==
    /\ sw_pc = "done"
       => \A k \in DOMAIN outports :
             /\ outports[k] # <<>>
             /\ Last(outports[k]) = STOP
             /\ Stops(outports[k]) = 1
    /\ sw_pc # "done" => \A k \in DOMAIN outports : Stops(outports[k]) = 0
    /\ sw_pc = "done" => end

C10_Step ==
    /\ sw_pc = "done" => (outports' = outports /\ sw_pc' = "done")
    /\ (sw_pc = "get" /\ sw_pc' # "get" /\ IsSentinel(Head(inqueue)))
       => (outports' = outports /\ end' /\ sw_pc' = "loop")
    /\ (end /\ HandlesPacket)
       => /\ \/ outports' = outports
             \/ \E k \in DOMAIN outports : outports' = [outports EXCEPT ![k] = Append(@, Pkt)]
          /\ sw_pc' \in {"loop", "crashed"}
    /\ (end /\ sw_pc = "loop")
       => \/ UNCHANGED <<outports, sw_pc, end, dropped, ftab, controller>>
          \/ /\ sw_pc' = "done"
             /\ \A k \in DOMAIN outports : outports'[k] = Append(outports[k], STOP)

C10_Amended == []C10_Markers /\ [][C10_Step]_vars

\* C10, witness: the switch has applied the END response and has stopped; each
\* of its two output queues holds packets and ends with the stop marker.
C10_Witness ==
    /\ sw_pc = "done"
    /\ controller.requested_updates = 21
    /\ Len(outports) = 2
    /\ \A k \in DOMAIN outports :
          Len(outports[k]) >= 2 /\ Last(outports[k]) = STOP

\* ---- the controller's responder

\* This step is a request made to the controller directly.
Asks == ctl_call' # ctl_call

\* The response type the claims give for a counter value.
TypeAt(n) ==
    CASE n \in {2, 4, 6} -> UPDATED_TABLE
      [] n = 8 -> POLICIES
      [] n = 10 -> FILTERS
      [] n = 12 -> MOBILITY
      [] n = 21 -> END
      [] OTHER -> NOP

\* C11: the counter is -1 before any request; an UPDATE request raises it by
\* exactly one, and when the request returns it has appended exactly one
\* response to the list it was given, of the type fixed by the new counter
\* value alone (UPDATED_TABLE at 2, 4, 6, POLICIES carrying the quota (3, 3) at
\* 8, FILTERS at 10, MOBILITY at 12, END at 21, NO_OP otherwise), whatever
\* NEW_TABLE and NEW_RULE requests came between; a NEW_TABLE or NEW_RULE
\* request leaves the counter as it is.  (A request that raises appends
\* nothing.)
C11_Start == ctl_call.type = "none" => controller.requested_updates = -1

C11_Step ==
    Asks
    => IF ctl_call'.type = UPDATE
       THEN /\ controller'.requested_updates = controller.requested_updates + 1
            /\ IF ctl_call'.err = "none"
               THEN /\ Len(responses') = Len(Sink) + 1
                    /\ SubSeq(responses', 1, Len(Sink)) = Sink
                    /\ Last(responses').RESP_TYPE = TypeAt(controller.requested_updates + 1)
                    /\ Last(responses').RESP_TYPE = POLICIES
                       => Last(responses').RESP_DATA = (PoliciesKey :> <<3, 3>>)
               ELSE responses' = Sink
       ELSE controller'.requested_updates = controller.requested_updates

C12_SameAddress ==
    (~controller.optargs /\ controller.requested_updates \in 4..5)
    => \A a \in DOMAIN controller.last_sent_ftab : controller.last_sent_ftab[a].ACTIVE

\* ---- the filter chain

\* The candidates whose call on the probe packet returns a bool, and the others:
\* wrong arity (raises), non-boolean result, wrong use of the argument (raises).
WellFormed == {good_function, always_true, always_false}
IllFormed == {bad_function1, bad_function2, bad_function3}

\* C13: a call of install_filter with a candidate whose probe call returns a
\* boolean without raising returns True and leaves the list with the candidate
\* at its head and the former list, in its order, behind; with any other
\* candidate it returns False, raises nothing and leaves the list as it was.
C13_Step ==
    lib_call'.op = "install_filter"
    => /\ lib_call'.err = "none"
       /\ lib_call'.fun \in WellFormed
          => /\ lib_call'.ok
             /\ lib_filtable' = <<lib_call'.fun>> \o lib_filtable
       /\ lib_call'.fun \in IllFormed
          => /\ ~lib_call'.ok
             /\ lib_filtable' = lib_filtable

C13_InstallFilter == [][C13_Step]_vars

\* C13, witness: a candidate has just been installed in front of two filters
\* that differ from each other, and the list holds no ill-formed candidate.
C13_Witness ==
    /\ lib_call.op = "install_filter"
    /\ lib_call.ok
    /\ Len(lib_filtable) = 3
    /\ lib_filtable[1] = lib_call.fun
    /\ lib_filtable[2] # lib_filtable[3]
    /\ lib_filtable[1] # lib_filtable[3]

\* C14: before the counter-10 action the controller's filter list is empty and
\* the switch has no filter; after it the list is exactly the port-below-450
\* predicate, and so is the list the switch holds from the cycle after the
\* request on; a packet handled under that list is dropped as "filtered" when
\* its payload port is below 450 and is not when it is 450 or more.
C14_Chain ==
    /\ controller.requested_updates < 10
       => (controller.filters = <<>> /\ filters = None)
    /\ controller.requested_updates >= 10 => controller.filters = <<good_function>>
    /\ filters \in {None, <<good_function>>}
    /\ (sw_pc = "get" /\ controller.requested_updates >= 10)
       => filters = <<good_function>>

C14_Step ==
    (HandlesPacket /\ controller.requested_updates >= 10)
    => IF Pkt.PAYLOAD.DEST_PORT < 450
       THEN dropped' = Append(dropped, <<Pkt, FILTERED>>)
       ELSE dropped' = dropped \/ Last(dropped')[2] # FILTERED

C14_OnlyGoodFilter == []C14_Chain /\ [][C14_Step]_vars

\* C14, witness: under the installed filter a packet for port 80 is the last
\* one dropped, as filtered, and a packet for port 500 handled after the
\* counter-10 action is the last one accepted.
C14_Witness ==
    /\ filters = <<good_function>>
    /\ controller.filters = <<good_function>>
    /\ sw_pc = "loop"
    /\ i >= 36
    /\ dropped # <<>>
    /\ Last(dropped) = <<Packet(11, 2, 80, "w"), FILTERED>>
    /\ accepted # <<>>
    /\ Last(accepted).PAYLOAD.DEST_PORT = 500
    /\ Last(accepted).PAYLOAD.OP = "o"

\* C15: a NEW_RULE(d, M) request with M > 0 returns; it leaves the retained
\* table with d on port 0 and active and every other entry as it was, and it
\* appends one UPDATED_TABLE response carrying that table.  With M = 0 the
\* insert raises IndexError: the retained table is unchanged and nothing is
\* appended.
C15_Step ==
    (Asks /\ ctl_call'.type = NEW_RULE)
    => LET d == ctl_call'.data[1]
           M == ctl_call'.data[2]
           before == controller.last_sent_ftab
           after == controller'.last_sent_ftab
       IN IF M > 0
          THEN /\ ctl_call'.err = "none"
               /\ DOMAIN after = DOMAIN before \cup {d}
               /\ after[d] = Rule(0, TRUE)
               /\ \A a \in DOMAIN before : a # d => after[a] = before[a]
               /\ responses' = Append(Sink, Response(UPDATED_TABLE, after))
          ELSE /\ ctl_call'.err = "IndexError"
               /\ after = before
               /\ responses' = Sink
               /\ controller' = controller

C15_NewRule == [][C15_Step]_vars

\* C15, witness: a NEW_RULE for address 1, outside the network, has just put 1
\* on port 0, active, beside the inactive rule of 2 and the rule of 3 on port 1.
C15_Witness ==
    /\ ctl_call.type = NEW_RULE
    /\ ctl_call.data = <<1, 2>>
    /\ ctl_call.err = "none"
    /\ DOMAIN controller.last_sent_ftab = {1, 2, 3}
    /\ controller.last_sent_ftab[1] = Rule(0, TRUE)
    /\ ~controller.last_sent_ftab[2].ACTIVE
    /\ controller.last_sent_ftab[3] = Rule(1, TRUE)
    /\ Last(responses) = Response(UPDATED_TABLE, controller.last_sent_ftab)

\* ---- destinations outside the network

\* The addresses the controller was constructed with.
Known == Elems(controller.network)

\* C16 as stated: a packet whose destination is outside the controller's
\* network is never forwarded and never dropped.
C16_Original ==
    /\ \A q \in DOMAIN outports : \A k \in DOMAIN outports[q] :
           outports[q][k] # STOP => outports[q][k].DST_ADDR \in Known
    /\ \A k \in DOMAIN dropped : dropped[k][1].DST_ADDR \in Known

\* C16, amended: the controller inserts a rule (port 0, active) for whatever
\* destination a NEW_RULE names, in its network or not, and whenever the switch
\* handles an item it holds the controller's retained table; so a packet to an
\* outside address is requeued on a miss and, popped again with its rule in
\* the table, is handled like any other: dropped as filtered, for an inactive
\* link or for quota, or put on the rule's queue.
C16_InSync == sw_pc = "get" => ftab = controller.last_sent_ftab

C16_Step ==
    HandlesPacket
    => /\ (/\ ~SomeFilterMatches
           /\ EffectiveDst \notin DOMAIN ftab
           /\ sw_pc' = "loop")
          => /\ controller'.last_sent_ftab =
                    Put(controller.last_sent_ftab, EffectiveDst, Rule(0, TRUE))
             /\ Last(responses') = Response(UPDATED_TABLE, controller'.last_sent_ftab)
             /\ inqueue' = Append(Tail(inqueue), Item)
       /\ (/\ EffectiveDst \notin Known
           /\ EffectiveDst \in DOMAIN ftab)
          => /\ inqueue' = Tail(inqueue)
             /\ IF SomeFilterMatches
                THEN dropped' = Append(dropped, <<Pkt, FILTERED>>)
                ELSE IF ~ftab[EffectiveDst].ACTIVE
                THEN dropped' = Append(dropped, <<Pkt, INACTIVE_LINK>>)
                ELSE IF ~PolicyAccepts
                THEN /\ dropped' # dropped
                     /\ outports' = outports
                ELSE /\ outports' = PutOut(outports, ftab[EffectiveDst].OUTPUT_LINK, Pkt)
                     /\ dropped' = dropped

C16_Amended == []C16_InSync /\ [][C16_Step]_vars

\* C16, witness: the one packet requeued so far is addressed outside the
\* network; it has left the inbound queue and is the last item of the queue of
\* port 0.
C16_Witness ==
    /\ Len(requeued) = 1
    /\ requeued[1][2].DST_ADDR \notin Known
    /\ requeued[1] \notin Elems(inqueue)
    /\ outports[1] # <<>>
    /\ Last(outports[1]) = requeued[1][2]
    /\ requeued[1][2].DST_ADDR \in DOMAIN ftab
    /\ ftab[requeued[1][2].DST_ADDR] = Rule(0, TRUE)

\* ---- quota entries

\* The reasons of a rejection at the policy stage.
QuotaReasons == {READ_EXCEEDED, WRITE_EXCEEDED, BOTH_EXCEEDED}

\* The operations that consume quota.
Counted == {"r", "w", "rw"}

\* The switch applies a POLICIES response in this step.
AppliesPolicies ==
    /\ sw_pc = "loop"
    /\ sw_pc' = "get"
    /\ \E k \in DOMAIN responses : responses[k].RESP_TYPE = POLICIES

\* C17: once a packet of a flow has gone through the policy stage, accepted or
\* rejected, the policy table holds an entry for the flow.
C17_EntryOnFirstUse ==
    policies # None
    => /\ \A k \in DOMAIN accepted : Flow(accepted[k]) \in DOMAIN policies
       /\ \A k \in DOMAIN dropped :
             dropped[k][2] \in QuotaReasons => Flow(dropped[k][1]) \in DOMAIN policies

\* ---- quota consumption

\* What is left to a flow under a policy table: its entry, or the default.
Left(pol, f) == IF f \in DOMAIN pol THEN pol[f] ELSE pol[PoliciesKey]

\* The table install_policy builds at counter 8.
FreshPolicy == install_policy(EmptyMap, 3, 3)

\* C18: under a policy table no flow's remaining reads or writes are ever
\* below zero, and a POLICIES response applied to the table replaces it whole;
\* no step of the switch other than that application raises the remaining
\* reads or writes of any flow, and only a packet step or that application
\* changes the table at all.
C18_NonNegative ==
    policies # None
    => /\ \A f \in DOMAIN policies : policies[f][1] >= 0 /\ policies[f][2] >= 0
       /\ update(<<Response(POLICIES, FreshPolicy)>>,
                 Local(ftab, policies, filters, redirects, end, aliases)).policies
            = FreshPolicy

C18_Step ==
    /\ policies' # policies => (HandlesPacket \/ AppliesPolicies)
    /\ (policies # None /\ ~AppliesPolicies)
       => /\ policies' # None
          /\ \A f \in DOMAIN policies \cup DOMAIN policies' :
                /\ Left(policies', f)[1] <= Left(policies, f)[1]
                /\ Left(policies', f)[2] <= Left(policies, f)[2]
    /\ AppliesPolicies => policies' = FreshPolicy

C18_QuotaOnlyFalls == []C18_NonNegative /\ [][C18_Step]_vars

\* C18, witness: a flow has used up its reads and its writes, and the last
\* packet dropped is a read-write packet of that flow rejected for both.
C18_Witness ==
    /\ policies # None
    /\ dropped # <<>>
    /\ Last(dropped)[2] = BOTH_EXCEEDED
    /\ Flow(Last(dropped)[1]) \in DOMAIN policies
    /\ policies[Flow(Last(dropped)[1])] = <<0, 0>>

\* ---- ownership of response data

\* The step calls Controller.request.
Requests == requests' # requests

\* C19: every response carries a copy, so no attribute of the switch is ever
\* the controller's own object; a switch step that makes no request leaves the
\* controller's retained table, filter list and redirect map as they were, and
\* a step in which the controller serves a request leaves the table, policy,
\* filters and redirects installed in the switch as they were.
C19_Copies ==
    /\ aliases = {}
    /\ \A k \in DOMAIN responses : responses[k].RESP_OBJ = "copy"

C19_Step ==
    /\ ~Requests
       => /\ controller'.last_sent_ftab = controller.last_sent_ftab
          /\ controller'.filters = controller.filters
          /\ controller'.redirects = controller.redirects
    /\ Requests
       => /\ ftab' = ftab
          /\ policies' = policies
          /\ filters' = filters
          /\ redirects' = redirects

C19_NoSharedState == []C19_Copies /\ [][C19_Step]_vars

\* C19, witness: the switch has a table installed, the controller has changed
\* its retained table since and its response is still pending, and the switch
\* has consumed quota under a policy the controller sent.
C19_Witness ==
    /\ ftab # None
    /\ DOMAIN ftab # {}
    /\ responses # <<>>
    /\ Last(responses).RESP_TYPE = UPDATED_TABLE
    /\ Last(responses).RESP_DATA = controller.last_sent_ftab
    /\ ftab # controller.last_sent_ftab
    /\ policies # None
    /\ DOMAIN policies # {PoliciesKey}

\* ---- stopping a producer

\* C20: a producer that was stopped and has left run() has put exactly one
\* termination signal on the inbound queue.
C20_OneSentinel ==
    (producer.stopped /\ producer.pc = "done") => sentinels = 1

\* ------------------------------------------------ producer.py, step by step

\* How many do_step calls the driving thread makes.
MaxSignals == 3

\* The packets on the inbound queue (nothing takes them off here).
Sent == Cardinality({k \in DOMAIN inqueue : ~IsSentinel(inqueue[k])})

\* The frame of a step of the producer's thread or of its caller.
StepFrame ==
    UNCHANGED <<controller, outports, ftab, policies, filters, redirects, responses,
                dropped, end, i, sw_pc, aliases, requests, requeued, accepted,
                lib_ftab, lib_call, lib_filtable, ctl_call, consumers, was_put>>

\* `while i < self.no_packets and not self.__stopped:`
RunTest ==
    /\ producer.pc = "test"
    /\ producer' = [producer EXCEPT
                      !.pc = IF Below(producer.i, producer.no_packets) /\ ~producer.stopped
                             THEN "spin" ELSE "done"]
    /\ UNCHANGED <<inqueue, sentinels, signals, caller>>
    /\ StepFrame

\* `while self.stepWait: pass` left: stepWait was read as false.
RunSpin ==
    /\ producer.pc = "spin"
    /\ ~producer.stepWait
    /\ producer' = [producer EXCEPT !.pc = "arm"]
    /\ UNCHANGED <<inqueue, sentinels, signals, caller>>
    /\ StepFrame

\* `self.stepWait = self.step` and `i += 1`
RunArm ==
    /\ producer.pc = "arm"
    /\ producer' = [producer EXCEPT !.stepWait = producer.step, !.i = producer.i + 1,
                                    !.pc = "check"]
    /\ UNCHANGED <<inqueue, sentinels, signals, caller>>
    /\ StepFrame

\* `if not self.__stopped:`
RunCheck ==
    /\ producer.pc = "check"
    /\ producer' = [producer EXCEPT !.pc = IF ~producer.stopped THEN "put" ELSE "signal"]
    /\ UNCHANGED <<inqueue, sentinels, signals, caller>>
    /\ StepFrame

\* `pkt = next(gen)` and `self.putpacket(self.id, pkt)`
RunPut ==
    /\ producer.pc = "put"
    /\ producer' = [Resume(producer) EXCEPT !.pc = "test"]
    /\ inqueue' = Append(inqueue, <<producer.id, Yield(Resume(producer))>>)
    /\ UNCHANGED <<sentinels, signals, caller>>
    /\ StepFrame

\* `self.putpacket(-1, None)`
RunSignal ==
    /\ producer.pc = "signal"
    /\ producer' = [producer EXCEPT !.pc = "test"]
    /\ inqueue' = Append(inqueue, <<-1, None>>)
    /\ sentinels' = sentinels + 1
    /\ UNCHANGED <<signals, caller>>
    /\ StepFrame

\* do_step(isEnd): `self.stepWait = False`, then stop() if isEnd.
DoStep ==
    /\ caller = "idle"
    /\ signals < MaxSignals
    /\ \E isEnd \in BOOLEAN :
          caller' = IF isEnd THEN "no_packets" ELSE "idle"
    /\ producer' = [producer EXCEPT !.stepWait = FALSE]
    /\ signals' = signals + 1
    /\ UNCHANGED <<inqueue, sentinels>>
    /\ StepFrame

\* stop(): `self.no_packets = -float('inf')`
StopNoPackets ==
    /\ caller = "no_packets"
    /\ producer' = [producer EXCEPT !.no_packets = "-inf"]
    /\ caller' = "stepWait"
    /\ UNCHANGED <<inqueue, sentinels, signals>>
    /\ StepFrame

\* stop(): `self.stepWait = False`
StopStepWait ==
    /\ caller = "stepWait"
    /\ producer' = [producer EXCEPT !.stepWait = FALSE]
    /\ caller' = "stopped"
    /\ UNCHANGED <<inqueue, sentinels, signals>>
    /\ StepFrame

\* stop(): `self.__stopped = True`
StopStopped ==
    /\ caller = "stopped"
    /\ producer' = [producer EXCEPT !.stopped = TRUE]
    /\ caller' = "idle"
    /\ UNCHANGED <<inqueue, sentinels, signals>>
    /\ StepFrame

\* The producers of the step-by-step runs: Producer(..., step=True).
StepProducers ==
    { NewProducer(0, <<11, 12>>, <<1, 2, 3>>, <<80>>, TRUE),
      NewProducer(1, <<11>>, <<2>>, <<80, 500>>, TRUE) }

StepInit ==
    /\ \E p \in StepProducers : producer = p
    /\ controller = NewController(<<>>, <<>>)
    /\ inqueue = <<>>
    /\ outports = <<>>
    /\ ftab = EmptyMap
    /\ policies = None
    /\ filters = None
    /\ redirects = None
    /\ responses = <<>>
    /\ dropped = <<>>
    /\ end = FALSE
    /\ i = -1
    /\ sw_pc = "start"
    /\ requests = <<>>
    /\ requeued = <<>>
    /\ accepted = <<>>
    /\ aliases = {}
    /\ sentinels = 0
    /\ lib_ftab = EmptyMap
    /\ lib_call = NoCall
    /\ lib_filtable = <<>>
    /\ ctl_call = NoRequest
    /\ signals = 0
    /\ caller = "idle"
    /\ consumers = <<>>
    /\ was_put = <<>>

StepNext ==
    \/ RunTest
    \/ RunSpin
    \/ RunArm
    \/ RunCheck
    \/ RunPut
    \/ RunSignal
    \/ DoStep
    \/ StopNoPackets
    \/ StopStepWait
    \/ StopStopped

StepSpec == StepInit /\ [][StepNext]_vars

\* C21: in step mode the packets the producer has put on the inbound queue
\* never outnumber the do_step calls made so far.
C21_OnePerSignal == Sent <= signals

\* ---- the termination signal

\* The item at the head of the inbound queue is the termination signal.
Signal == Item[1] = -1 /\ Item[2] = None

\* The switch takes the item at the head of the inbound queue in this step.
Pops == sw_pc = "get" /\ sw_pc' # "get"

\* C22: the cycle that pops the termination signal sets the end flag and
\* forwards, drops, requeues and requests nothing; with the flag set and the
\* cycle over, the switch can push the stop markers whatever waits on the
\* inbound queue, and until it has it pops nothing and requests nothing.  Any
\* other item, one with input port -1 and a packet included, is handled as a
\* packet: it leaves the flag alone and is forwarded, dropped or requeued.
C22_StopsReady == (end /\ sw_pc = "loop") => ENABLED SwitchStop

C22_Step ==
    /\ (Pops /\ Signal)
       => /\ end'
          /\ sw_pc' = "loop"
          /\ inqueue' = Tail(inqueue)
          /\ UNCHANGED <<outports, dropped, requeued, requests, controller, responses>>
    /\ (end /\ sw_pc = "loop")
       => /\ UNCHANGED <<requests, requeued, dropped, controller, responses, end>>
          /\ Len(inqueue') >= Len(inqueue)
          /\ \/ UNCHANGED <<sw_pc, outports>>
             \/ /\ sw_pc' = "done"
                /\ outports' = [k \in DOMAIN outports |-> Append(outports[k], STOP)]
    /\ (Pops /\ ~Signal /\ sw_pc' = "loop")
       => /\ end' = end
          /\ \/ /\ \E k \in DOMAIN outports :
                      outports' = [outports EXCEPT ![k] = Append(@, Pkt)]
                /\ UNCHANGED <<dropped, requeued>>
                /\ inqueue' = Tail(inqueue)
             \/ /\ \E why \in Reasons : dropped' = Append(dropped, <<Pkt, why>>)
                /\ UNCHANGED <<outports, requeued>>
                /\ inqueue' = Tail(inqueue)
             \/ /\ requeued' = Append(requeued, Item)
                /\ inqueue' = Append(Tail(inqueue), Item)
                /\ UNCHANGED <<outports, dropped>>

C22_Sentinel == []C22_StopsReady /\ [][C22_Step]_vars

\* C22, witness: the switch has stopped on the producer's termination signal,
\* with the controller far from its END, while a requeued packet still waits
\* on the inbound queue; a packet that came in on port -1 was forwarded.
C22_Witness ==
    /\ sw_pc = "done"
    /\ sentinels = 1
    /\ controller.requested_updates < 21
    /\ inqueue # <<>>
    /\ inqueue[1] \in Elems(requeued)
    /\ inqueue[1][1] = -1
    /\ \E k \in DOMAIN outports[1] : outports[1][k] # STOP

\* ---- the cycle

\* How many UPDATE requests the switch has made.
UpdatesAsked == Cardinality({k \in DOMAIN requests : requests[k][1] = UPDATE})

\* The data of the last pending response of one of the types, or what the
\* switch holds if there is none.
LastOf(types, held) ==
    LET ks == {k \in DOMAIN responses : responses[k].RESP_TYPE \in types}
    IN IF ks = {} THEN held
       ELSE responses[CHOOSE k \in ks : \A m \in ks : m <= k].RESP_DATA

\* C23: the UPDATE requests made so far are one for each cycle 3, 6, 9, ...
\* begun.  A cycle i with i > 0 and i mod 3 = 0 makes the UPDATE request and
\* takes nothing from the inbound queue; any other cycle makes no request when
\* it begins, leaves the switch with what the pending responses say, later
\* ones overriding earlier ones, empties the pending list and then takes
\* exactly one item; no UPDATE request is made and no item is taken anywhere
\* else.
C23_Count == UpdatesAsked = (IF i < 0 THEN 0 ELSE i \div 3)

C23_Step ==
    /\ i' # i
       => /\ i' = i + 1
          /\ sw_pc = "loop"
          /\ inqueue' = inqueue
          /\ IF i' > 0 /\ i' % 3 = 0
             THEN /\ requests' = Append(requests, <<UPDATE, <<>>>>)
                  /\ sw_pc' \in {"loop", "crashed"}
                  /\ UNCHANGED <<ftab, policies, filters, redirects, end>>
             ELSE /\ requests' = requests
                  /\ responses' = <<>>
                  /\ ftab' = LastOf({NEW_TABLE, UPDATED_TABLE}, ftab)
                  /\ policies' = LastOf({POLICIES}, policies)
                  /\ filters' = LastOf({FILTERS}, filters)
                  /\ redirects' = LastOf({MOBILITY}, redirects)
                  /\ end' = (end \/ \E k \in DOMAIN responses : responses[k].RESP_TYPE = END)
                  /\ sw_pc' = "get"
    /\ (requests' # requests /\ Last(requests')[1] = UPDATE) => i' # i
    /\ sw_pc = "get"
       => /\ i' = i
          /\ \/ UNCHANGED <<sw_pc, requests, responses, outports, dropped>>
             \/ /\ sw_pc' \in {"loop", "crashed"}
                /\ inqueue # <<>>
                /\ inqueue' \in {Tail(inqueue), Append(Tail(inqueue), Item)}
    /\ sw_pc # "get" => Len(inqueue') >= Len(inqueue)

C23_Cycle == []C23_Count /\ [][C23_Step]_vars

\* C23, witness: a cycle after an UPDATE cycle has applied two pending
\* responses, the answer to a NEW_RULE and the answer to the UPDATE after it,
\* and waits for its item.
C23_Witness ==
    /\ i > 3
    /\ i % 3 = 1
    /\ sw_pc = "get"
    /\ responses = <<>>
    /\ UpdatesAsked = i \div 3
    /\ Len(requests) >= 2
    /\ Last(requests)[1] = UPDATE
    /\ requests[Len(requests) - 1][1] = NEW_RULE
    /\ ftab = controller.last_sent_ftab

\* ---- the two tables

\* Two routing tables with the same keys, ports and active flags.
SameRules(t, u) ==
    /\ DOMAIN t = DOMAIN u
    /\ \A a \in DOMAIN t :
          /\ t[a].OUTPUT_LINK = u[a].OUTPUT_LINK
          /\ t[a].ACTIVE = u[a].ACTIVE

\* C24: once the switch has its first table, the table it would hold after
\* applying what is pending is the controller's retained table, and when it
\* waits for an item nothing is pending; every step in which the controller
\* changes its retained table appends a response carrying the new table, and
\* the switch takes a packet only with a table that has the keys, ports and
\* active flags of the controller's.
C24_Pending ==
    /\ sw_pc \in {"loop", "get", "done"}
       => SameRules(LastOf({NEW_TABLE, UPDATED_TABLE}, ftab), controller.last_sent_ftab)
    /\ sw_pc = "get" => responses = <<>>

C24_Step ==
    /\ (controller'.last_sent_ftab # controller.last_sent_ftab /\ sw_pc' # "crashed")
       => /\ responses' # <<>>
          /\ Len(responses') = Len(responses) + 1
          /\ Last(responses').RESP_TYPE \in {NEW_TABLE, UPDATED_TABLE}
          /\ Last(responses').RESP_DATA = controller'.last_sent_ftab
    /\ (Pops /\ ~Signal) => SameRules(ftab, controller.last_sent_ftab)

C24_TablesAgree == []C24_Pending /\ [][C24_Step]_vars

\* C24, witness: the controller has served a NEW_RULE and, at counter 6,
\* deleted a rule; the switch waits for an item with a table that lacks an
\* address of the network, as the controller's does.
C24_Witness ==
    /\ sw_pc = "get"
    /\ controller.requested_updates >= 6
    /\ \E k \in DOMAIN requests : requests[k][1] = NEW_RULE
    /\ \E a \in Known : a \notin DOMAIN ftab
    /\ ftab = controller.last_sent_ftab

\* ---- conservation of packets

\* How many packets the producer has put on the inbound queue.
Produced == producer.i - sentinels

\* The k-th packet the producer's generator yields (k from 1).
NthPacket(k) ==
    Packet(producer.sources[((k - 1) % Len(producer.sources)) + 1],
           producer.dests[((k - 1) % Len(producer.dests)) + 1],
           producer.destports[((k - 1) % Len(producer.destports)) + 1],
           operation((k - 1) % Len(producer.sources)))

\* How many times x occurs in the sequence q.
Occurs(q, x) == Cardinality({k \in DOMAIN q : q[k] = x})

\* How many times the packet p is held by the switch: on the inbound queue, on
\* the output queues and in the dropped list.
Held(p) ==
    LET RECURSIVE OnQueues(_)
        OnQueues(n) == IF n = 0 THEN 0 ELSE Occurs(outports[n], p) + OnQueues(n - 1)
    IN Occurs(inqueue, <<producer.id, p>>)
       + OnQueues(Len(outports))
       + Cardinality({k \in DOMAIN dropped : dropped[k][1] = p})

\* C25: between the steps of the switch every packet the producer has put is
\* held exactly as often as it was put, counting the inbound queue, the output
\* queues and the dropped list together; every dropped packet has one of the
\* five reasons, and the switch holds nothing the producer did not put.
C25_Conserved ==
    sw_pc # "crashed"
    => LET put == [k \in 1..Produced |-> NthPacket(k)]
           values == {put[k] : k \in DOMAIN put}
       IN /\ \A p \in values : Held(p) = Occurs(put, p)
          /\ \A k \in DOMAIN dropped :
                dropped[k][2] \in Reasons /\ dropped[k][1] \in values
          /\ \A k \in DOMAIN inqueue :
                ~IsSentinel(inqueue[k])
                => inqueue[k][1] = producer.id /\ inqueue[k][2] \in values
          /\ \A q \in DOMAIN outports : \A k \in DOMAIN outports[q] :
                outports[q][k] # STOP => outports[q][k] \in values

\* C25, witness: of the packets put so far one is on the inbound queue after
\* a requeue, some were forwarded and some dropped, and one packet value was
\* put more than once.
C25_Witness ==
    /\ Produced >= 4
    /\ requeued # <<>>
    /\ Last(requeued) \in Elems(inqueue)
    /\ dropped # <<>>
    /\ outports[1] # <<>>
    /\ NthPacket(1) = NthPacket(Produced)

\* ---- the END response

\* A step of the switch thread can be taken.
SwitchCanStep ==
    \/ ENABLED SwitchStart
    \/ ENABLED SwitchRequestUpdate
    \/ ENABLED SwitchUpdate
    \/ ENABLED SwitchProcess
    \/ ENABLED SwitchStop

\* The cycle beginning in this step applies a pending END response.
AppliesEnd ==
    /\ i' # i
    /\ ~(i' > 0 /\ i' % 3 = 0)
    /\ \E k \in DOMAIN responses : responses[k].RESP_TYPE = END

\* C26: the controller's END waits on the pending list until the next cycle
\* that is not an UPDATE cycle; that cycle sets the end flag and goes on to
\* wait for an item; with the flag set and the inbound queue empty the switch
\* thread cannot move and no stop marker is on any output queue; the item it
\* then takes, if it is a packet, is forwarded, dropped or requeued (with a
\* NEW_RULE request) as in any other cycle, and only then do the stop markers
\* follow.
C26_Waits ==
    /\ (sw_pc = "get" /\ inqueue = <<>>)
       => /\ ~SwitchCanStep
          /\ \A q \in DOMAIN outports : Stops(outports[q]) = 0
    /\ (sw_pc = "get" /\ end)
       => /\ controller.requested_updates = 21
          /\ \A q \in DOMAIN outports : Stops(outports[q]) = 0

C26_Step ==
    /\ (requests' # requests /\ controller'.requested_updates = 21
          /\ controller.requested_updates = 20)
       => /\ Last(responses').RESP_TYPE = END
          /\ end' = end
          /\ sw_pc' = "loop"
    /\ AppliesEnd => (end' /\ sw_pc' = "get" /\ inqueue' = inqueue /\ outports' = outports)
    /\ (Pops /\ end /\ ~Signal)
       => /\ sw_pc' = "loop"
          /\ \/ /\ \E k \in DOMAIN outports :
                      outports' = [outports EXCEPT ![k] = Append(@, Pkt)]
                /\ UNCHANGED <<dropped, requests>>
                /\ inqueue' = Tail(inqueue)
             \/ /\ \E why \in Reasons : dropped' = Append(dropped, <<Pkt, why>>)
                /\ UNCHANGED <<outports, requests>>
                /\ inqueue' = Tail(inqueue)
             \/ /\ requests' = Append(requests, <<NEW_RULE, <<EffectiveDst, Len(outports)>>>>)
                /\ inqueue' = Append(Tail(inqueue), Item)
                /\ UNCHANGED <<outports, dropped>>

C26_EndCycle == []C26_Waits /\ [][C26_Step]_vars

\* C26, witness: END has been applied and the switch waits for an item; the
\* inbound queue is empty and the producer has finished, so nothing will
\* arrive, and no output queue has a stop marker.
C26_Witness ==
    /\ end
    /\ sw_pc = "get"
    /\ controller.requested_updates = 21
    /\ inqueue = <<>>
    /\ producer.pc = "done"
    /\ \A q \in DOMAIN outports : outports[q] # <<>> /\ Last(outports[q]) # STOP

\* ---- what the policy stage writes

\* C27: under a policy table, a packet that reaches the policy stage leaves
\* the default entry and the entry of every flow but its own as they were and
\* adds no key but its own flow's; the first accepted read, write or
\* read-write packet of a flow leaves the flow with the default less what the
\* packet consumes; a packet with another operation is forwarded and leaves
\* the table unchanged, and so does every packet the stage rejects.
C27_Step ==
    ReachesPolicy
    => /\ policies'[PoliciesKey] = policies[PoliciesKey]
       /\ DOMAIN policies \subseteq DOMAIN policies'
       /\ DOMAIN policies' \subseteq DOMAIN policies \cup {Flow(Pkt)}
       /\ \A f \in DOMAIN policies \ {Flow(Pkt)} : policies'[f] = policies[f]
       /\ (Pkt.PAYLOAD.OP \in Counted /\ dropped' = dropped
             /\ Flow(Pkt) \notin DOMAIN policies)
          => policies'[Flow(Pkt)] =
                <<policies[PoliciesKey][1]
                     - (IF Pkt.PAYLOAD.OP \in {"r", "rw"} THEN 1 ELSE 0),
                  policies[PoliciesKey][2]
                     - (IF Pkt.PAYLOAD.OP \in {"w", "rw"} THEN 1 ELSE 0)>>
       /\ Pkt.PAYLOAD.OP \notin Counted
          => /\ policies' = policies
             /\ dropped' = dropped
             /\ outports' = PutOut(outports, ftab[EffectiveDst].OUTPUT_LINK, Pkt)
       /\ dropped' # dropped
          => /\ policies' = policies
             /\ Last(dropped')[2] \in QuotaReasons

OwnFlow == <<Pkt.SRC_ADDR, Pkt.DST_ADDR>>
TargetFlow == <<Pkt.SRC_ADDR, EffectiveDst>>

\* What the operation of the packet at the head of the queue consumes.
Cost == <<IF Pkt.PAYLOAD.OP \in {"r", "rw"} THEN 1 ELSE 0,
          IF Pkt.PAYLOAD.OP \in {"w", "rw"} THEN 1 ELSE 0>>

\* C28: a redirected packet that reaches the policy stage is accepted or
\* rejected on what is left to the flow of its own source and destination
\* fields; acceptance charges that flow, leaves the flow from its source to
\* the redirect target as it was, and puts the packet, unchanged, on the queue
\* of the target's rule.
C28_Step ==
    (ReachesPolicy /\ EffectiveDst # Pkt.DST_ADDR)
    => /\ Left(policies', TargetFlow) = Left(policies, TargetFlow)
       /\ IF Left(policies, OwnFlow)[1] >= Cost[1] /\ Left(policies, OwnFlow)[2] >= Cost[2]
          THEN /\ Left(policies', OwnFlow) =
                    <<Left(policies, OwnFlow)[1] - Cost[1],
                      Left(policies, OwnFlow)[2] - Cost[2]>>
               /\ outports' = PutOut(outports, ftab[EffectiveDst].OUTPUT_LINK, Pkt)
               /\ dropped' = dropped
          ELSE /\ policies' = policies
               /\ outports' = outports
               /\ dropped' # dropped

C28_OriginalFlow == [][C28_Step]_vars

\* C28, witness: address a is redirected to b; the flows of one source to a
\* and to b both have entries, which together record more accepted reads than
\* one quota allows; the last packet accepted is addressed to a and is the
\* last item on the queue of b's rule.
C28_Witness ==
    /\ policies # None
    /\ redirects # None
    /\ accepted # <<>>
    /\ LET p == Last(accepted)
           a == p.DST_ADDR
       IN /\ a \in DOMAIN redirects
          /\ redirects[a] # a
          /\ redirects[a] \in DOMAIN ftab
          /\ <<p.SRC_ADDR, a>> \in DOMAIN policies
          /\ <<p.SRC_ADDR, redirects[a]>> \in DOMAIN policies
          /\ (policies[PoliciesKey][1] - policies[<<p.SRC_ADDR, a>>][1])
               + (policies[PoliciesKey][1] - policies[<<p.SRC_ADDR, redirects[a]>>][1])
             > policies[PoliciesKey][1]
          /\ Last(outports[ftab[redirects[a]].OUTPUT_LINK + 1]) = p

\* ---- how often a packet is requeued

\* How many NEW_RULE requests have named the address d.
AskedFor(d) ==
    Cardinality({k \in DOMAIN requests :
                    requests[k][1] = NEW_RULE /\ requests[k][2][1] = d})

\* C29: with no configured targets no item is requeued more than twice and no
\* address is asked a rule for more than twice; a miss leaves the address in
\* the controller's table, and the table loses an address only in the UPDATE
\* that takes the counter to 6, and then one.
C29_AtMostTwice ==
    ~controller.optargs
    => /\ \A k \in DOMAIN requeued : Occurs(requeued, requeued[k]) <= 2
       /\ \A k \in DOMAIN requests :
             requests[k][1] = NEW_RULE => AskedFor(requests[k][2][1]) <= 2

C29_Step ==
    ~controller.optargs
    => /\ (requeued' # requeued /\ sw_pc' # "crashed")
          => EffectiveDst \in DOMAIN controller'.last_sent_ftab
       /\ ~(DOMAIN controller.last_sent_ftab \subseteq DOMAIN controller'.last_sent_ftab)
          => /\ controller.requested_updates = 5
             /\ controller'.requested_updates = 6
             /\ Cardinality(DOMAIN controller.last_sent_ftab
                               \ DOMAIN controller'.last_sent_ftab) = 1

C29_Requeues == []C29_AtMostTwice /\ [][C29_Step]_vars

\* C29, witness: the producer has put one packet addressed to 1, an address
\* outside the network, and that packet has been requeued twice, before and
\* after the delete at counter 6, and then forwarded.
C29_Witness ==
    /\ ~controller.optargs
    /\ controller.requested_updates >= 6
    /\ Len(requeued) = 2
    /\ requeued[1] = requeued[2]
    /\ requeued[1][2].DST_ADDR \notin Known
    /\ Cardinality({k \in 1..Produced : NthPacket(k) = requeued[1][2]}) = 1
    /\ outports[1] # <<>>
    /\ Last(outports[1]) = requeued[1][2]

\* ---- the length of a run

\* The termination signals the switch has taken from the inbound queue.
SentinelsRead == sentinels - Occurs(inqueue, <<-1, None>>)

\* The packets on the output queues.
Forwarded ==
    LET RECURSIVE Upto(_)
        Upto(n) == IF n = 0 THEN 0
                   ELSE Len(outports[n]) - Stops(outports[n]) + Upto(n - 1)
    IN Upto(Len(outports))

\* The items the switch has taken from the inbound queue: each was forwarded,
\* dropped or requeued, or was a termination signal.
Popped == Forwarded + Len(dropped) + Len(requeued) + SentinelsRead

\* C30: the controller's counter is one less than the number of UPDATE
\* requests made and never exceeds 21; each UPDATE request raises it by one
\* and is answered with the response of the new value, so each scripted value
\* is passed in exactly one request; a switch that has left its loop without
\* having read a termination signal has made 22 UPDATE requests, was in cycle
\* 67 and has taken 46 items from the inbound queue, retries included.
C30_Counts ==
    /\ controller.requested_updates = UpdatesAsked - 1
    /\ controller.requested_updates <= 21
    /\ (sw_pc = "done" /\ SentinelsRead = 0)
       => /\ UpdatesAsked = 22
          /\ controller.requested_updates = 21
          /\ i = 67
          /\ Popped = 46

C30_Step ==
    IF requests' # requests /\ Last(requests')[1] = UPDATE
    THEN /\ controller'.requested_updates = controller.requested_updates + 1
         /\ sw_pc' # "crashed"
            => /\ Len(responses') = Len(responses) + 1
               /\ Last(responses').RESP_TYPE = TypeAt(controller'.requested_updates)
    ELSE controller'.requested_updates = controller.requested_updates

C31_NeverRaises == ctl_call.err = "none"

\* ----------------------------------------------------------------- consumer.py

\* How many packets are put on one output queue.
MaxFed == 2

\* Consumer.__init__
NewConsumer(id) == [id |-> id, stop |-> FALSE, pkts |-> <<>>, pc |-> "get"]

\* The packets the switch forwards here.
FedPackets == {Packet(11, 1, 500, "r"), Packet(12, 2, 80, "o")}

\* The frame of a step of the switch's output side or of a consumer.
ConsumerFrame ==
    UNCHANGED <<controller, inqueue, ftab, policies, filters, redirects, responses,
                dropped, i, aliases, producer, history_vars, lib_ftab, lib_call,
                lib_filtable, ctl_call, signals, caller>>

\* self.outports[out].put(pkt): the switch forwards a packet.
OutPut ==
    /\ sw_pc = "loop"
    /\ ~end
    /\ \E out \in 0..(Len(outports) - 1), pkt \in FedPackets :
          /\ Len(was_put[out + 1]) < MaxFed
          /\ outports' = PutOut(outports, out, pkt)
          /\ was_put' = [was_put EXCEPT ![out + 1] = Append(@, pkt)]
    /\ UNCHANGED <<end, sw_pc, consumers>>
    /\ ConsumerFrame

\* `self.end = True`, by a termination signal or an END response.
SwitchEnds ==
    /\ sw_pc = "loop"
    /\ ~end
    /\ end' = TRUE
    /\ UNCHANGED <<outports, sw_pc, consumers, was_put>>
    /\ ConsumerFrame

\* ConsumeOne that records whatever it takes, the stop marker included.
ConsumeOne_RecordsStop(c, resp) ==
    IF resp = None THEN [c EXCEPT !.pc = "crashed"]
    ELSE IF resp = STOP THEN [c EXCEPT !.stop = TRUE, !.pkts = Append(@, resp), !.pc = "done"]
    ELSE [c EXCEPT !.pkts = Append(@, resp)]

\* One pass of the loop of Consumer.run on the item resp it got.
ConsumeOne(c, resp) ==
    IF resp = None THEN [c EXCEPT !.pc = "crashed"]
    ELSE IF resp = STOP THEN [c EXCEPT !.stop = TRUE, !.pc = "done"]
    ELSE [c EXCEPT !.pkts = Append(@, resp)]

\* Consumer k takes an item from its queue: `while not self.__stop` and
\* `self.queue.get()`, which blocks on an empty queue.
ConsumerRun(k) ==
    /\ consumers[k].pc = "get"
    /\ ~consumers[k].stop
    /\ outports[k] # <<>>
    /\ consumers' = [consumers EXCEPT ![k] = ConsumeOne(@, Head(outports[k]))]
    /\ outports' = [outports EXCEPT ![k] = Tail(@)]
    /\ UNCHANGED <<end, sw_pc, was_put>>
    /\ ConsumerFrame

\* A switch in its loop with two output queues, a consumer on each.
ConsumerInit ==
    /\ controller = NewController(<<>>, <<>>)
    /\ inqueue = <<>>
    /\ outports = <<<<>>, <<>>>>
    /\ ftab = EmptyMap
    /\ policies = None
    /\ filters = None
    /\ redirects = None
    /\ responses = <<>>
    /\ dropped = <<>>
    /\ end = FALSE
    /\ i = 0
    /\ sw_pc = "loop"
    /\ producer = NewProducer(0, <<>>, <<>>, <<>>, FALSE)
    /\ requests = <<>>
    /\ requeued = <<>>
    /\ accepted = <<>>
    /\ aliases = {}
    /\ sentinels = 0
    /\ lib_ftab = EmptyMap
    /\ lib_call = NoCall
    /\ lib_filtable = <<>>
    /\ ctl_call = NoRequest
    /\ signals = 0
    /\ caller = "idle"
    /\ consumers = <<NewConsumer(0), NewConsumer(1)>>
    /\ was_put = <<<<>>, <<>>>>

ConsumerNext ==
    \/ OutPut
    \/ SwitchEnds
    \/ SwitchStop
    \/ \E k \in DOMAIN consumers : ConsumerRun(k)

\* Each consumer is a thread of its own: one that can take an item does.
ConsumerSpec ==
    /\ ConsumerInit
    /\ [][ConsumerNext]_vars
    /\ \A k \in {1, 2} : WF_vars(ConsumerRun(k))

\* The packets among the items of the queue q.
PacketsOf(q) == SelectSeq(q, LAMBDA x : x # STOP)

\* C32: what a consumer has recorded, followed by the packets still on its
\* queue, is what the switch has put on that queue, in that order; it never
\* records the stop marker; once it has taken the marker it has recorded all
\* that was put, its queue is empty and it takes nothing more; and once the
\* switch has left its loop every consumer ends.
C32_Recorded ==
    \A k \in DOMAIN consumers :
        /\ consumers[k].pkts \o PacketsOf(outports[k]) = was_put[k]
        /\ \A n \in DOMAIN consumers[k].pkts : consumers[k].pkts[n] # STOP
        /\ consumers[k].pc # "crashed"
        /\ consumers[k].stop
           => /\ consumers[k].pkts = was_put[k]
              /\ outports[k] = <<>>
              /\ sw_pc = "done"

C32_Step ==
    \A k \in DOMAIN consumers :
        consumers[k].stop => (consumers'[k] = consumers[k] /\ outports'[k] = outports[k])

C32_Ends == (sw_pc = "done") ~> (\A k \in DOMAIN consumers : consumers[k].stop)

C32_Consumers == []C32_Recorded /\ [][C32_Step]_vars /\ C32_Ends

\* C32, witness: the switch has left its loop and both consumers have ended;
\* the first recorded two different packets in the order they were put, the
\* second recorded none.
C32_Witness ==
    /\ sw_pc = "done"
    /\ \A k \in DOMAIN consumers : consumers[k].stop
    /\ Len(consumers[1].pkts) = 2
    /\ consumers[1].pkts[1] # consumers[1].pkts[2]
    /\ consumers[1].pkts = was_put[1]
    /\ consumers[2].pkts = <<>>

====
